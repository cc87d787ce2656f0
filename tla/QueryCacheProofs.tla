------------------------- MODULE QueryCacheProofs -------------------------
(***************************************************************************)
(* Proofs about QueryCache, for any number of callers, queries, flights    *)
(* and slots: that flights, callers and the map of flights stay linked,    *)
(* that the cache stays within its limits, that it never answers with data *)
(* older than a result it had cached before, and that it implements        *)
(* QueryAnswers.                                                           *)
(***************************************************************************)
EXTENDS QueryCache, FiniteSetTheorems, TLAPS

(* How callers, flights and the map of registered flights are linked.      *)
CallerLinks ==
  \A c \in Callers : caller[c].pc = "waiting" =>
    /\ caller[c].flight \in Flights
    /\ flight[caller[c].flight].stage # "free"

FlightLinks ==
  \A f \in Flights :
    /\ flight[f].stage # "free" => flight[f].key \in Keys
    /\ Running(f) => flight[f].waiters = Cardinality(Attached(f))
    /\ flight[f].stage = "done" => flight[f].waiters >= Cardinality(Attached(f))
    /\ Running(f) /\ flight[f].cancelled => Attached(f) = {}
    /\ Running(f) /\ ~flight[f].cancelled => flights[flight[f].key] = f

MapLinks ==
  \A k \in Keys : flights[k] # None =>
    /\ Running(flights[k])
    /\ flight[flights[k]].key = k
    /\ ~flight[flights[k]].cancelled

Links == CallerLinks /\ FlightLinks /\ MapLinks

IInv == TypeOK /\ Links /\ SlotsAccounted

----------------------------------------------------------------------------
(* Facts about the operators.                                              *)

(* The callers of a flight are finitely many, so they can be counted.      *)
LEMMA AttachedFinite ==
  ASSUME NEW f
  PROVE  IsFiniteSet(Attached(f)) /\ Cardinality(Attached(f)) \in Nat
<1>1. Attached(f) \in SUBSET Callers
  BY DEF Attached
<1>2. IsFiniteSet(Attached(f))
  BY <1>1, FS_Subset, IdentitiesAssumption
<1> QED
  BY <1>2, FS_CardinalityType

(* A request that starts to wait joins the callers of one flight only.     *)
LEMMA AttachedAfterJoin ==
  ASSUME TypeOK, NEW c \in Callers, NEW g \in Flights, NEW n \in Nat,
         caller[c].pc # "waiting",
         caller' = [caller EXCEPT ![c] = Waiting(g, n)]
  PROVE  /\ Attached(g)' = Attached(g) \cup {c}
         /\ c \notin Attached(g)
         /\ \A f \in Flights : f # g => Attached(f)' = Attached(f)
BY DEF TypeOK, Attached, Waiting

(* A request that comes to rest leaves the callers of its flight only.     *)
LEMMA AttachedAfterRest ==
  ASSUME TypeOK, NEW c \in Callers, NEW r, r.pc # "waiting",
         caller' = [caller EXCEPT ![c] = r]
  PROVE  \A f \in Flights : Attached(f)' = Attached(f) \ {c}
BY DEF TypeOK, Attached

(* Nothing else changes who waits for what.                                *)
LEMMA AttachedUnchanged ==
  ASSUME caller' = caller
  PROVE  \A f \in Flights : Attached(f)' = Attached(f)
BY DEF Attached

(* The executions in progress are finitely many.                           *)
LEMMA ExecutingFinite ==
  /\ IsFiniteSet(Executing) /\ Cardinality(Executing) \in Nat
  /\ IsFiniteSet(Previewing) /\ Cardinality(Previewing) \in Nat
<1>1. Executing \in SUBSET Flights /\ Previewing \in SUBSET Previews
  BY DEF Executing, Previewing
<1>2. IsFiniteSet(Executing) /\ IsFiniteSet(Previewing)
  BY <1>1, FS_Subset, IdentitiesAssumption
<1> QED
  BY <1>2, FS_CardinalityType

----------------------------------------------------------------------------
(* Every action preserves the invariant: the requests.                     *)

LEMMA HitCacheInv ==
  ASSUME IInv, NEW c \in Callers, NEW k \in Keys, HitCache(c, k)
  PROVE  IInv'
<1> USE DEF IInv, HitCache
<1>1. PICK e \in Hits(k) :
        caller' = [caller EXCEPT ![c] = Resting("answered", newest[k], e.version)]
  OBVIOUS
<1>2. e \in Entry /\ Unexpired \subseteq Entry
  BY DEF Hits, Unexpired, TypeOK
<1>3. TypeOK'
  BY <1>1, <1>2 DEF TypeOK, Resting, Caller, Entry
<1>4. \A f \in Flights : Attached(f)' = Attached(f)
  <2>1. \A f \in Flights : Attached(f)' = Attached(f) \ {c}
    BY <1>1, AttachedAfterRest DEF Resting
  <2> QED
    BY <2>1 DEF Attached, Ready
<1>5. Links'
  BY <1>1, <1>4 DEF Links, CallerLinks, FlightLinks, MapLinks, Running, Resting, TypeOK
<1>6. SlotsAccounted'
  BY DEF SlotsAccounted, Executing, Previewing
<1> QED
  BY <1>3, <1>5, <1>6

LEMMA RejectFullInv ==
  ASSUME IInv, NEW c \in Callers, NEW k \in Keys, NEW refresh \in BOOLEAN,
         RejectFull(c, k, refresh)
  PROVE  IInv'
<1> USE DEF IInv, RejectFull
<1>1. TypeOK'
  BY DEF TypeOK, Resting, Caller, Unexpired
<1>2. \A f \in Flights : Attached(f)' = Attached(f)
  <2>1. \A f \in Flights : Attached(f)' = Attached(f) \ {c}
    BY AttachedAfterRest DEF Resting
  <2> QED
    BY <2>1 DEF Attached, Ready
<1>3. Links'
  BY <1>2 DEF Links, CallerLinks, FlightLinks, MapLinks, Running, Resting, TypeOK
<1>4. SlotsAccounted'
  BY DEF SlotsAccounted, Executing, Previewing
<1> QED
  BY <1>1, <1>3, <1>4

LEMMA JoinFlightInv ==
  ASSUME IInv, NEW c \in Callers, NEW k \in Keys, NEW refresh \in BOOLEAN,
         JoinFlight(c, k, refresh)
  PROVE  IInv'
<1> DEFINE g == flights[k]
<1> USE DEF IInv, JoinFlight
<1>1. /\ g \in Flights /\ Running(g) /\ flight[g].key = k
      /\ ~flight[g].cancelled
  BY DEF Links, MapLinks, TypeOK
<1>2. TypeOK'
  <2>1. flight' \in [Flights -> Flight]
    BY <1>1 DEF TypeOK, Flight
  <2>2. Waiting(g, newest[k]) \in Caller
    BY <1>1 DEF TypeOK, Waiting, Caller
  <2>3. caller' \in [Callers -> Caller]
    BY <2>2 DEF TypeOK
  <2>4. entries' \subseteq entries
    BY DEF Unexpired
  <2> QED
    BY <2>1, <2>3, <2>4 DEF TypeOK
<1>3. /\ Attached(g)' = Attached(g) \cup {c}
      /\ c \notin Attached(g)
      /\ \A f \in Flights : f # g => Attached(f)' = Attached(f)
  BY <1>1, AttachedAfterJoin DEF Ready, TypeOK
<1>4. Cardinality(Attached(g)') = Cardinality(Attached(g)) + 1
  BY <1>3, FS_AddElement, AttachedFinite
<1>5. /\ flight'[g] = [flight[g] EXCEPT !.waiters = @ + 1]
      /\ \A f \in Flights : f # g => flight'[f] = flight[f]
      /\ \A f \in Flights : /\ flight'[f].stage = flight[f].stage
                            /\ flight'[f].key = flight[f].key
                            /\ flight'[f].cancelled = flight[f].cancelled
  BY <1>1 DEF TypeOK, Flight
<1>6. CallerLinks'
  BY <1>1, <1>5 DEF Links, CallerLinks, Running, Waiting, TypeOK
<1>7. FlightLinks'
  <2> SUFFICES ASSUME NEW f \in Flights
               PROVE  FlightLinks!(f)'
    BY DEF FlightLinks
  <2>1. CASE f = g
    <3>1. flight'[g].waiters = flight[g].waiters + 1
      BY <1>1, <1>5 DEF TypeOK, Flight
    <3>2. flight[g].waiters = Cardinality(Attached(g))
      BY <1>1 DEF Links, FlightLinks
    <3>3. Running(g)' /\ flight'[g].stage # "done" /\ ~flight'[g].cancelled
      BY <1>1, <1>5 DEF Running
    <3>4. flights'[flight'[g].key] = g /\ flight'[g].key = k
      BY <1>1, <1>5
    <3> QED
      BY <1>4, <2>1, <3>1, <3>2, <3>3, <3>4
  <2>2. CASE f # g
    BY <1>3, <1>5, <2>2 DEF Links, FlightLinks, Running
  <2> QED
    BY <2>1, <2>2
<1>8. MapLinks'
  BY <1>5 DEF Links, MapLinks, Running, TypeOK
<1>9. SlotsAccounted'
  <2>1. Executing' = Executing
    BY <1>5 DEF Executing
  <2> QED
    BY <2>1 DEF SlotsAccounted, Previewing
<1> QED
  BY <1>2, <1>6, <1>7, <1>8, <1>9 DEF Links

LEMMA StartFlightInv ==
  ASSUME IInv, NEW c \in Callers, NEW k \in Keys, NEW refresh \in BOOLEAN,
         NEW g \in Flights, StartFlight(c, k, refresh, g)
  PROVE  IInv'
<1> USE DEF IInv, StartFlight
<1>1. TypeOK'
  BY DEF TypeOK, Waiting, Caller, NewFlight, Flight, FlightStages, Outcomes,
         Unexpired
<1>2. /\ Attached(g)' = Attached(g) \cup {c}
      /\ c \notin Attached(g)
      /\ \A f \in Flights : f # g => Attached(f)' = Attached(f)
  BY AttachedAfterJoin DEF Ready, TypeOK
<1>3. Cardinality(Attached(g)') = 1
  <2>1. Attached(g) = {}
    BY DEF Collectable
  <2>2. Attached(g)' = {c}
    BY <1>2, <2>1
  <2> QED
    BY <2>2, FS_Singleton
<1>4. flight'[g] = NewFlight(k) /\ \A f \in Flights : f # g => flight'[f] = flight[f]
  BY DEF TypeOK
<1>5. \A h \in Keys : flights[h] # g
  BY IdentitiesAssumption DEF Links, MapLinks, Collectable, Running
<1>6. CallerLinks'
  BY <1>4 DEF Links, CallerLinks, Waiting, NewFlight, TypeOK
<1>7. FlightLinks'
  <2> SUFFICES ASSUME NEW f \in Flights
               PROVE  FlightLinks!(f)'
    BY DEF FlightLinks
  <2>1. CASE f = g
    BY <1>3, <1>4, <2>1 DEF NewFlight, Running, TypeOK
  <2>2. CASE f # g
    BY <1>2, <1>4, <2>2, IdentitiesAssumption DEF Links, FlightLinks, Running, TypeOK
  <2> QED
    BY <2>1, <2>2
<1>8. MapLinks'
  BY <1>4, <1>5 DEF Links, MapLinks, Running, NewFlight, TypeOK
<1>9. SlotsAccounted'
  <2>1. Executing' = Executing
    BY <1>4 DEF Executing, Collectable, NewFlight
  <2> QED
    BY <2>1 DEF SlotsAccounted, Previewing
<1> QED
  BY <1>1, <1>6, <1>7, <1>8, <1>9 DEF Links

LEMMA DisconnectInv ==
  ASSUME IInv, NEW c \in Callers, Disconnect(c)
  PROVE  IInv'
<1> USE DEF IInv, Disconnect
<1>1. TypeOK'
  BY DEF TypeOK, Caller
<1>2. \A d \in Callers : /\ caller'[d].pc = caller[d].pc
                         /\ caller'[d].flight = caller[d].flight
  BY DEF TypeOK, Caller
<1>3. \A f \in Flights : Attached(f)' = Attached(f)
  BY <1>2 DEF Attached
<1>4. Links'
  BY <1>2, <1>3 DEF Links, CallerLinks, FlightLinks, MapLinks, Running
<1>5. SlotsAccounted'
  BY DEF SlotsAccounted, Executing, Previewing
<1> QED
  BY <1>1, <1>4, <1>5

(* The heart of the deduplication: the counter reaches zero exactly when   *)
(* nobody waits for the flight any more, and then the key is freed.        *)
LEMMA LeaveInv ==
  ASSUME IInv, NEW c \in Callers, Leave(c)
  PROVE  IInv'
<1> USE DEF IInv, Leave
<1>1. PICK g \in Flights :
        g = caller[c].flight /\ flight[g].stage # "free" /\ c \in Attached(g)
  BY DEF Links, CallerLinks, Attached
<1>2. \A f \in Flights : Attached(f)' = Attached(f) \ {c}
  BY AttachedAfterRest DEF Resting
<1>3. \A f \in Flights : f # g => Attached(f)' = Attached(f)
  <2>1. \A f \in Flights : f # g => c \notin Attached(f)
    BY <1>1 DEF Attached
  <2> QED
    BY <1>2, <2>1
<1>4. Cardinality(Attached(g)') = Cardinality(Attached(g)) - 1
  BY <1>1, <1>2, FS_RemoveElement, AttachedFinite
<1>5. Cardinality(Attached(g)) \in Nat \ {0}
  BY <1>1, AttachedFinite, FS_EmptySet
<1>6. flight[g].waiters \in Nat \ {0}
  <2>1. Running(g) \/ flight[g].stage = "done"
    BY <1>1 DEF Running, TypeOK, Flight, FlightStages
  <2>2. flight[g].waiters \in Nat
    BY <1>1 DEF TypeOK, Flight
  <2> QED
    BY <1>1, <1>5, <2>1, <2>2 DEF Links, FlightLinks
<1>7. /\ flight'[g].waiters = flight[g].waiters - 1
      /\ flight'[g].cancelled = (flight[g].cancelled \/ LastWaiter(g))
      /\ \A f \in Flights : f # g => flight'[f] = flight[f]
      /\ \A f \in Flights : /\ flight'[f].stage = flight[f].stage
                            /\ flight'[f].key = flight[f].key
  BY <1>1 DEF TypeOK, Flight
<1>8. TypeOK'
  <2> DEFINE x == [flight[g] EXCEPT !.waiters = @ - 1,
                                    !.cancelled = @ \/ LastWaiter(g)]
  <2>1. flight' \in [Flights -> Flight]
    <3>1. flight[g] \in Flight
      BY DEF TypeOK
    <3>2. flight[g].waiters - 1 \in Nat
      BY <1>6
    <3>3. (flight[g].cancelled \/ LastWaiter(g)) \in BOOLEAN
      OBVIOUS
    <3>4. x \in Flight
      BY <3>1, <3>2, <3>3 DEF Flight
    <3>5. flight' = [flight EXCEPT ![g] = x]
      BY <1>1
    <3> HIDE DEF x
    <3> QED
      BY <3>4, <3>5 DEF TypeOK
  <2> QED
    BY <2>1 DEF TypeOK, Resting, Caller, Deregister
<1>9. CallerLinks'
  <2>1. \A d \in Callers : caller'[d].pc = "waiting" => d # c /\ caller'[d] = caller[d]
    BY DEF Resting, TypeOK
  <2>2. \A f \in Flights : flight'[f].stage = flight[f].stage
    BY <1>7
  <2> HIDE DEF Leave
  <2> QED
    BY <2>1, <2>2 DEF Links, CallerLinks
<1>10. FlightLinks'
  <2> SUFFICES ASSUME NEW f \in Flights
               PROVE  FlightLinks!(f)'
    BY DEF FlightLinks
  <2>1. CASE f = g
    <3>1. Running(g) => flight[g].waiters = Cardinality(Attached(g))
      BY <1>1 DEF Links, FlightLinks
    <3>2. flight[g].stage = "done" => flight[g].waiters >= Cardinality(Attached(g))
      BY <1>1 DEF Links, FlightLinks
    <3>3. Running(g) /\ LastWaiter(g) => Attached(g)' = {}
      <4>1. Running(g) /\ LastWaiter(g) => Cardinality(Attached(g)') = 0
        BY <1>4, <3>1 DEF LastWaiter
      <4>2. IsFiniteSet(Attached(g)')
        BY <1>1, <1>2, AttachedFinite, FS_RemoveElement
      <4> QED
        BY <4>1, <4>2, FS_EmptySet
    <3>4. Running(g) => ~flight[g].cancelled
      BY <1>1 DEF Links, FlightLinks
    <3>5. Running(g) /\ ~LastWaiter(g) => flights'[flight[g].key] = g
      BY <1>1, <3>4 DEF Links, FlightLinks
    <3>6. flight'[g].waiters = flight[g].waiters - 1
      BY <1>7
    <3>7. Running(g)' <=> Running(g)
      BY <1>1, <1>7 DEF Running
    <3>8. /\ flight'[g].stage = flight[g].stage
          /\ flight'[g].key = flight[g].key
          /\ flight[g].key \in Keys
      BY <1>1, <1>7 DEF Links, FlightLinks
    <3>9. Running(g)' => flight'[g].waiters = Cardinality(Attached(g)')
      BY <1>4, <3>1, <3>6, <3>7
    <3>10. flight'[g].stage = "done" => flight'[g].waiters >= Cardinality(Attached(g)')
      <4>1. flight[g].stage = "done" =>
              flight[g].waiters - 1 >= Cardinality(Attached(g)) - 1
        BY <1>5, <1>6, <3>2
      <4> HIDE DEF Leave
      <4> QED
        BY <4>1, <1>4, <3>6, <3>8
    <3>11. Running(g)' /\ flight'[g].cancelled => Attached(g)' = {}
      BY <1>7, <3>3, <3>4, <3>7
    <3>12. Running(g)' /\ ~flight'[g].cancelled => flights'[flight'[g].key] = g
      BY <1>7, <3>5, <3>7, <3>8
    <3> QED
      BY <2>1, <3>8, <3>9, <3>10, <3>11, <3>12
  <2>2. CASE f # g
    <3>1. /\ flight'[f] = flight[f]
          /\ Attached(f)' = Attached(f)
      BY <1>3, <1>7, <2>2
    <3>2. \A k \in Keys : flights[k] = f => flights'[k] = f
      BY <1>1, <2>2 DEF Deregister, TypeOK
    <3> QED
      BY <3>1, <3>2 DEF Links, FlightLinks, Running
  <2> QED
    BY <2>1, <2>2
<1>11. MapLinks'
  <2> SUFFICES ASSUME NEW k \in Keys, flights'[k] # None
               PROVE  MapLinks!(k)!2'
    BY DEF MapLinks
  <2>1. flights'[k] = flights[k]
    BY DEF Deregister, TypeOK
  <2>2. flights[k] = g => ~LastWaiter(g)
    BY <2>1, <1>1 DEF Deregister, Links, MapLinks, TypeOK
  <2> QED
    <3>1. /\ flights[k] \in Flights
          /\ Running(flights[k])
          /\ flight[flights[k]].key = k
          /\ ~flight[flights[k]].cancelled
      BY <2>1 DEF Links, MapLinks, TypeOK
    <3>2. ~flight'[flights[k]].cancelled
      BY <1>7, <2>2, <3>1
    <3>3. /\ flight'[flights[k]].stage = flight[flights[k]].stage
          /\ flight'[flights[k]].key = flight[flights[k]].key
      BY <1>7, <3>1
    <3> HIDE DEF IInv, Leave
    <3> QED
      BY <2>1, <3>1, <3>2, <3>3 DEF Running
<1>12. SlotsAccounted'
  <2>1. Executing' = Executing
    BY <1>7 DEF Executing
  <2> QED
    BY <2>1 DEF SlotsAccounted, Previewing
<1> QED
  BY <1>8, <1>9, <1>10, <1>11, <1>12 DEF Links

LEMMA ReceiveInv ==
  ASSUME IInv, NEW c \in Callers, Receive(c)
  PROVE  IInv'
<1> USE DEF IInv, Receive
<1>1. PICK g \in Flights : g = caller[c].flight /\ flight[g].stage = "done"
  BY DEF Links, CallerLinks
<1> DEFINE r == IF caller[c].gone \/ flight[g].outcome = "error"
                  THEN Resting("failed", 0, 0)
                  ELSE Resting("answered", caller[c].floor, flight[g].version)
<1>2. /\ r \in Caller /\ r.pc # "waiting"
      /\ caller' = [caller EXCEPT ![c] = r]
  BY <1>1 DEF TypeOK, Resting, Caller, Flight
<1> HIDE DEF r
<1>3. TypeOK'
  BY <1>2 DEF TypeOK
<1>4. \A f \in Flights : Attached(f)' = Attached(f) \ {c}
  BY <1>2, AttachedAfterRest
<1>5. \A f \in Flights : f # g => Attached(f)' = Attached(f)
  <2>1. \A f \in Flights : f # g => c \notin Attached(f)
    BY <1>1 DEF Attached
  <2> QED
    BY <1>4, <2>1
<1>6. Cardinality(Attached(g)') <= Cardinality(Attached(g))
  <2>1. Attached(g)' \subseteq Attached(g)
    BY <1>4
  <2> QED
    BY <2>1, AttachedFinite, FS_Subset
<1>7. CallerLinks'
  BY <1>2 DEF Links, CallerLinks, TypeOK
<1>8. FlightLinks'
  <2> SUFFICES ASSUME NEW f \in Flights
               PROVE  FlightLinks!(f)'
    BY DEF FlightLinks
  <2>1. CASE f = g
    <3>1. /\ flight[g].waiters >= Cardinality(Attached(g))
          /\ flight[g].waiters \in Nat
          /\ Cardinality(Attached(g)) \in Nat
          /\ flight[g].key \in Keys
      BY <1>1, AttachedFinite DEF Links, FlightLinks, TypeOK, Flight
    <3>2. IsFiniteSet(Attached(g)')
      BY <1>1, <1>4, AttachedFinite, FS_RemoveElement
    <3>3. Cardinality(Attached(g)') \in Nat
      BY <3>2, FS_CardinalityType
    <3> QED
      BY <1>1, <1>6, <2>1, <3>1, <3>3 DEF Running
  <2>2. CASE f # g
    BY <1>5, <2>2 DEF Links, FlightLinks, Running
  <2> QED
    BY <2>1, <2>2
<1>9. MapLinks' /\ SlotsAccounted'
  BY DEF Links, MapLinks, Running, SlotsAccounted, Executing, Previewing
<1> QED
  BY <1>3, <1>7, <1>8, <1>9 DEF Links
----------------------------------------------------------------------------
(* Every action preserves the invariant: the goroutines of the flights.    *)

(* A flight that moves on to another running stage keeps its links.        *)
LEMMA LinksAfterStage ==
  ASSUME TypeOK, Links, NEW f \in Flights, NEW x \in Flight,
         Running(f), x.stage \in {"executing", "returned"},
         x.key = flight[f].key, x.waiters = flight[f].waiters,
         x.cancelled = flight[f].cancelled,
         flight' = [flight EXCEPT ![f] = x],
         caller' = caller, flights' = flights
  PROVE  flight' \in [Flights -> Flight] /\ Links'
<1>1. flight' \in [Flights -> Flight]
  BY DEF TypeOK
<1>2. \A g \in Flights : Attached(g)' = Attached(g)
  BY AttachedUnchanged
<1>3. \A g \in Flights : /\ flight'[g].key = flight[g].key
                         /\ flight'[g].waiters = flight[g].waiters
                         /\ flight'[g].cancelled = flight[g].cancelled
                         /\ g # f => flight'[g].stage = flight[g].stage
  BY DEF TypeOK
<1>4. flight'[f].stage = x.stage
  BY DEF TypeOK
<1>5. \A g \in Flights : /\ Running(g)' <=> Running(g)
                         /\ (flight'[g].stage = "free") <=> (flight[g].stage = "free")
                         /\ (flight'[g].stage = "done") <=> (flight[g].stage = "done")
  BY <1>3, <1>4 DEF Running
<1>6. CallerLinks'
  BY <1>5 DEF Links, CallerLinks
<1>7. FlightLinks'
  <2> SUFFICES ASSUME NEW g \in Flights
               PROVE  FlightLinks!(g)'
    BY DEF FlightLinks
  <2> QED
    BY <1>2, <1>3, <1>5 DEF Links, FlightLinks
<1>8. MapLinks'
  BY <1>3, <1>5 DEF Links, MapLinks, TypeOK
<1> QED
  BY <1>1, <1>6, <1>7, <1>8 DEF Links

LEMMA AcquireSlotInv ==
  ASSUME IInv, NEW f \in Flights, AcquireSlot(f)
  PROVE  IInv'
<1> USE DEF IInv, AcquireSlot
<1> DEFINE x == [flight[f] EXCEPT !.stage = "executing"]
<1>1. /\ flight[f] \in Flight /\ x \in Flight
      /\ x.stage = "executing" /\ x.key = flight[f].key
      /\ x.waiters = flight[f].waiters /\ x.cancelled = flight[f].cancelled
      /\ flight' = [flight EXCEPT ![f] = x]
  BY DEF TypeOK, Flight, FlightStages
<1> HIDE DEF x
<1>2. flight' \in [Flights -> Flight] /\ Links'
  BY <1>1, LinksAfterStage DEF Running
<1>3. TypeOK'
  BY <1>2 DEF TypeOK
<1>4. SlotsAccounted'
  <2>1. Executing' = Executing \cup {f} /\ f \notin Executing
    BY <1>1 DEF Executing, TypeOK
  <2>2. Cardinality(Executing') = Cardinality(Executing) + 1
    BY <2>1, ExecutingFinite, FS_AddElement
  <2> QED
    BY <2>2, ExecutingFinite, LimitsAssumption DEF SlotsAccounted, Previewing, TypeOK
<1> QED
  BY <1>2, <1>3, <1>4

LEMMA AbandonSlotInv ==
  ASSUME IInv, NEW f \in Flights, AbandonSlot(f)
  PROVE  IInv'
<1> USE DEF IInv, AbandonSlot
<1> DEFINE x == [flight[f] EXCEPT !.stage = "returned", !.outcome = "error"]
<1>1. /\ flight[f] \in Flight /\ x \in Flight
      /\ x.stage = "returned" /\ x.key = flight[f].key
      /\ x.waiters = flight[f].waiters /\ x.cancelled = flight[f].cancelled
      /\ flight' = [flight EXCEPT ![f] = x]
  BY DEF TypeOK, Flight, FlightStages, Outcomes
<1> HIDE DEF x
<1>2. flight' \in [Flights -> Flight] /\ Links'
  BY <1>1, LinksAfterStage DEF Running
<1>3. TypeOK'
  BY <1>2 DEF TypeOK
<1>4. SlotsAccounted'
  <2>1. Executing' = Executing
    BY <1>1 DEF Executing, TypeOK
  <2> QED
    BY <2>1 DEF SlotsAccounted, Previewing
<1> QED
  BY <1>2, <1>3, <1>4

(* An execution that ends, with rows or with an error, gives back the one  *)
(* slot it holds.                                                          *)
LEMMA ExecutionEnds ==
  ASSUME IInv, NEW f \in Flights, NEW x \in Flight,
         flight[f].stage = "executing", x.stage = "returned",
         x.key = flight[f].key, x.waiters = flight[f].waiters,
         x.cancelled = flight[f].cancelled,
         flight' = [flight EXCEPT ![f] = x], slots' = slots - 1,
         UNCHANGED <<source, now, entries, flights, caller, preview, newest>>
  PROVE  IInv'
<1> USE DEF IInv
<1>1. flight' \in [Flights -> Flight] /\ Links'
  BY LinksAfterStage DEF Running
<1>2. Executing' = Executing \ {f} /\ f \in Executing
  BY DEF Executing, TypeOK
<1>3. Cardinality(Executing') = Cardinality(Executing) - 1
  BY <1>2, ExecutingFinite, FS_RemoveElement
<1>4. Cardinality(Executing) \in Nat \ {0}
  BY <1>2, ExecutingFinite, FS_EmptySet
<1>5. SlotsAccounted' /\ slots' \in Nat
  BY <1>3, <1>4, ExecutingFinite, LimitsAssumption DEF SlotsAccounted, Previewing, TypeOK
<1>6. TypeOK'
  BY <1>1, <1>5 DEF TypeOK
<1> QED
  BY <1>1, <1>5, <1>6

LEMMA ExecuteOkInv ==
  ASSUME IInv, NEW f \in Flights, ExecuteOk(f)
  PROVE  IInv'
<1>1. PICK o \in {"ok", "large"} :
        flight' = [flight EXCEPT ![f].stage = "returned",
                                 ![f].outcome = o, ![f].version = source]
  BY DEF ExecuteOk
<1> DEFINE x == [flight[f] EXCEPT !.stage = "returned",
                                  !.outcome = o, !.version = source]
<1>2. /\ x \in Flight
      /\ x.stage = "returned" /\ x.key = flight[f].key
      /\ x.waiters = flight[f].waiters /\ x.cancelled = flight[f].cancelled
      /\ flight' = [flight EXCEPT ![f] = x]
  BY <1>1 DEF IInv, TypeOK, Flight, FlightStages, Outcomes
<1> HIDE DEF x
<1> QED
  BY <1>2, ExecutionEnds DEF ExecuteOk

LEMMA ExecuteFailInv ==
  ASSUME IInv, NEW f \in Flights, ExecuteFail(f)
  PROVE  IInv'
<1> DEFINE x == [flight[f] EXCEPT !.stage = "returned", !.outcome = "error"]
<1>1. /\ x \in Flight
      /\ x.stage = "returned" /\ x.key = flight[f].key
      /\ x.waiters = flight[f].waiters /\ x.cancelled = flight[f].cancelled
      /\ flight' = [flight EXCEPT ![f] = x]
  BY DEF ExecuteFail, IInv, TypeOK, Flight, FlightStages, Outcomes
<1> HIDE DEF x
<1> QED
  BY <1>1, ExecutionEnds DEF ExecuteFail

(* A flight that ends while somebody waits for it frees its own key; one   *)
(* that was abandoned leaves the key to the flight that replaced it.       *)
LEMMA FinishInv ==
  ASSUME IInv, NEW f \in Flights, Finish(f)
  PROVE  IInv'
<1> USE DEF IInv, Finish
<1>1. /\ flight[f] \in Flight /\ flight[f].key \in Keys
      /\ Running(f)
  BY DEF TypeOK, Links, FlightLinks, Running
<1>2. /\ flight' \in [Flights -> Flight]
      /\ flight'[f].stage = "done"
      /\ \A g \in Flights : /\ g # f => flight'[g] = flight[g]
                            /\ flight'[g].key = flight[g].key
                            /\ flight'[g].waiters = flight[g].waiters
                            /\ flight'[g].cancelled = flight[g].cancelled
  BY <1>1 DEF TypeOK, Flight, FlightStages
<1>3. \A g \in Flights : Attached(g)' = Attached(g)
  BY AttachedUnchanged
<1>4. \A k \in Keys : flights'[k] # None =>
         flights'[k] = flights[k] /\ flights[k] # f
  BY DEF Deregister, Links, MapLinks, TypeOK
<1>5. \A g \in Flights : g # f => \A k \in Keys : flights[k] = g => flights'[k] = g
  BY DEF Deregister, TypeOK
<1>6. entries' \subseteq Entry /\ newest' \in [Keys -> Nat]
  <2>1. CASE MayStore(f)
    <3>1. PICK kept \in MakeRoom :
            entries' = {e \in kept : e.key # flight[f].key}
                         \cup {[key |-> flight[f].key, version |-> flight[f].version,
                                expires |-> now + ttl]}
      BY <2>1 DEF Store
    <3>2. kept \subseteq entries
      BY DEF MakeRoom
    <3>3. flight[f].version \in Nat /\ now + ttl \in Nat
      BY <1>1, LimitsAssumption DEF TypeOK, Flight
    <3>4. newest' = [newest EXCEPT ![flight[f].key] = flight[f].version]
      BY <2>1 DEF Store
    <3> QED
      BY <1>1, <3>1, <3>2, <3>3, <3>4 DEF TypeOK, Entry
  <2>2. CASE ~MayStore(f)
    BY <2>2 DEF TypeOK
  <2> QED
    BY <2>1, <2>2
<1>7. TypeOK'
  BY <1>2, <1>6 DEF TypeOK, Deregister
<1>8. CallerLinks'
  BY <1>2 DEF Links, CallerLinks
<1>9. FlightLinks'
  <2> SUFFICES ASSUME NEW g \in Flights
               PROVE  FlightLinks!(g)'
    BY DEF FlightLinks
  <2>1. CASE g = f
    <3>1. /\ flight[f].waiters = Cardinality(Attached(f))
          /\ Cardinality(Attached(f)) \in Nat
      BY <1>1, AttachedFinite DEF Links, FlightLinks
    <3> QED
      BY <1>1, <1>2, <1>3, <2>1, <3>1 DEF Running
  <2>2. CASE g # f
    BY <1>2, <1>3, <1>5, <2>2 DEF Links, FlightLinks, Running
  <2> QED
    BY <2>1, <2>2
<1>10. MapLinks'
  BY <1>2, <1>4 DEF Links, MapLinks, Running, TypeOK
<1>11. SlotsAccounted'
  <2>1. Executing' = Executing
    BY <1>2 DEF Executing
  <2> QED
    BY <2>1 DEF SlotsAccounted, Previewing
<1> QED
  BY <1>7, <1>8, <1>9, <1>10, <1>11 DEF Links

----------------------------------------------------------------------------
(* Every action preserves the invariant: previews and the environment.     *)

(* The links do not speak of previews, the clock or the source.            *)
LEMMA LinksUnchanged ==
  ASSUME Links, UNCHANGED <<flights, flight, caller>>
  PROVE  Links'
BY DEF Links, CallerLinks, FlightLinks, MapLinks, Running, Attached

LEMMA PreviewInv ==
  ASSUME IInv, NEW p \in Previews,
         PreviewAsk(p) \/ PreviewStart(p) \/ PreviewAbandon(p) \/ PreviewEnd(p)
  PROVE  IInv'
<1> USE DEF IInv
<1>1. Links'
  BY LinksUnchanged DEF PreviewAsk, PreviewStart, PreviewAbandon, PreviewEnd
<1>2. Executing' = Executing
  BY DEF Executing, PreviewAsk, PreviewStart, PreviewAbandon, PreviewEnd
<1>3. preview' \in [Previews -> {"idle", "waiting", "executing"}]
  BY DEF TypeOK, PreviewAsk, PreviewStart, PreviewAbandon, PreviewEnd
<1>4. slots' \in Nat /\ SlotsAccounted'
  <2>1. CASE PreviewAsk(p) \/ PreviewAbandon(p)
    <3>1. Previewing' = Previewing
      BY <2>1 DEF Previewing, PreviewAsk, PreviewAbandon, TypeOK
    <3> QED
      BY <1>2, <2>1, <3>1 DEF SlotsAccounted, PreviewAsk, PreviewAbandon, TypeOK
  <2>2. CASE PreviewStart(p)
    <3>1. Previewing' = Previewing \cup {p} /\ p \notin Previewing
      BY <2>2 DEF Previewing, PreviewStart, TypeOK
    <3>2. Cardinality(Previewing') = Cardinality(Previewing) + 1
      BY <3>1, ExecutingFinite, FS_AddElement
    <3> QED
      BY <1>2, <2>2, <3>2, ExecutingFinite, LimitsAssumption
      DEF SlotsAccounted, PreviewStart, TypeOK
  <2>3. CASE PreviewEnd(p)
    <3>1. Previewing' = Previewing \ {p} /\ p \in Previewing
      BY <2>3 DEF Previewing, PreviewEnd, TypeOK
    <3>2. Cardinality(Previewing') = Cardinality(Previewing) - 1
      BY <3>1, ExecutingFinite, FS_RemoveElement
    <3>3. Cardinality(Previewing) \in Nat \ {0}
      BY <3>1, ExecutingFinite, FS_EmptySet
    <3> QED
      BY <1>2, <2>3, <3>2, <3>3, ExecutingFinite, LimitsAssumption
      DEF SlotsAccounted, PreviewEnd, TypeOK
  <2> QED
    BY <2>1, <2>2, <2>3
<1>5. TypeOK'
  BY <1>3, <1>4 DEF TypeOK, PreviewAsk, PreviewStart, PreviewAbandon, PreviewEnd
<1> QED
  BY <1>1, <1>4, <1>5

LEMMA EnvironmentInv ==
  ASSUME IInv, WriteSource \/ Tick \/ UNCHANGED vars
  PROVE  IInv'
<1> USE DEF IInv, WriteSource, Tick, vars
<1>1. Links'
  BY LinksUnchanged
<1>2. TypeOK'
  BY DEF TypeOK
<1>3. SlotsAccounted'
  BY DEF SlotsAccounted, Executing, Previewing
<1> QED
  BY <1>1, <1>2, <1>3

----------------------------------------------------------------------------
(* The inductive invariant.                                                *)

LEMMA InitInv == Init => IInv
<1> SUFFICES ASSUME Init
             PROVE  IInv
  OBVIOUS
<1> USE DEF Init
<1>1. TypeOK
  BY DEF TypeOK, NoFlight, Flight, FlightStages, Outcomes, Resting, Caller
<1>2. Links
  BY DEF Links, CallerLinks, FlightLinks, MapLinks, NoFlight, Running, Resting
<1>3. SlotsAccounted
  <2>1. Executing = {} /\ Previewing = {}
    BY DEF Executing, Previewing, NoFlight
  <2> QED
    BY <2>1, FS_EmptySet, LimitsAssumption DEF SlotsAccounted
<1> QED
  BY <1>1, <1>2, <1>3 DEF IInv

LEMMA NextInv == IInv /\ [Next]_vars => IInv'
<1> SUFFICES ASSUME IInv, [Next]_vars
             PROVE  IInv'
  OBVIOUS
<1>1. ASSUME NEW c \in Callers, Request(c)
      PROVE  IInv'
  BY <1>1, HitCacheInv, JoinFlightInv, RejectFullInv, StartFlightInv DEF Request
<1>2. ASSUME NEW c \in Callers, Disconnect(c) \/ Leave(c) \/ Receive(c)
      PROVE  IInv'
  BY <1>2, DisconnectInv, LeaveInv, ReceiveInv
<1>3. ASSUME NEW f \in Flights,
             AcquireSlot(f) \/ AbandonSlot(f) \/ ExecuteOk(f) \/ ExecuteFail(f)
               \/ Finish(f)
      PROVE  IInv'
  BY <1>3, AcquireSlotInv, AbandonSlotInv, ExecuteOkInv, ExecuteFailInv, FinishInv
<1>4. ASSUME NEW p \in Previews,
             PreviewAsk(p) \/ PreviewStart(p) \/ PreviewAbandon(p) \/ PreviewEnd(p)
      PROVE  IInv'
  BY <1>4, PreviewInv
<1>5. CASE WriteSource \/ Tick \/ UNCHANGED vars
  BY <1>5, EnvironmentInv
<1> QED
  BY <1>1, <1>2, <1>3, <1>4, <1>5 DEF Next

LEMMA SpecInv == Spec => []IInv
BY InitInv, NextInv, PTL DEF Spec

----------------------------------------------------------------------------

(* Every variable of the cache keeps its type, whatever the interleaving   *)
(* of requests, goroutines and the clock; waiters never drops below zero.  *)
THEOREM TypeCorrect == Spec => []TypeOK
<1>1. IInv => TypeOK
  BY DEF IInv
<1> QED
  BY <1>1, SpecInv, PTL

(* No path out of execute leaks or doubles an execution slot.              *)
THEOREM SlotsAlwaysAccounted == Spec => []SlotsAccounted
<1>1. IInv => SlotsAccounted
  BY DEF IInv
<1> QED
  BY <1>1, SpecInv, PTL

(* A client that goes away never cancels work somebody else waits for.     *)
THEOREM LiveWorkAlwaysKept == Spec => []LiveWorkKept
<1>1. IInv => LiveWorkKept
  <2> SUFFICES ASSUME IInv, NEW c \in Callers,
                      caller[c].pc = "waiting", Running(caller[c].flight)
               PROVE  /\ ~flight[caller[c].flight].cancelled
                      /\ flights[flight[caller[c].flight].key] = caller[c].flight
    BY DEF LiveWorkKept
  <2>1. caller[c].flight \in Flights /\ c \in Attached(caller[c].flight)
    BY DEF IInv, Links, CallerLinks, Attached
  <2> QED
    BY <2>1 DEF IInv, Links, FlightLinks
<1> QED
  BY <1>1, SpecInv, PTL

(* At most one goroutine per query is still wanted by somebody.            *)
THEOREM DeduplicationHolds == Spec => []OneFlightPerKey
<1>1. IInv => OneFlightPerKey
  BY DEF IInv, Links, FlightLinks, OneFlightPerKey
<1> QED
  BY <1>1, SpecInv, PTL

----------------------------------------------------------------------------
(* The limits of the maps.                                                 *)

BoundInv == IsFiniteSet(entries) /\ CacheBounded

(* The registered queries are finitely many.                               *)
LEMMA RegisteredFinite ==
  IsFiniteSet(Registered) /\ Cardinality(Registered) \in Nat
<1>1. Registered \in SUBSET Keys
  BY DEF Registered
<1> QED
  BY <1>1, FS_Subset, FS_CardinalityType, IdentitiesAssumption

(* Fewer entries and no new flight keep the limits.                        *)
LEMMA BoundAfterShrinking ==
  ASSUME BoundInv, entries' \subseteq entries, Registered' \subseteq Registered
  PROVE  BoundInv'
<1>1. IsFiniteSet(entries') /\ Cardinality(entries') <= Cardinality(entries)
  BY FS_Subset DEF BoundInv
<1>2. Cardinality(entries) \in Nat /\ Cardinality(entries') \in Nat
  BY <1>1, FS_CardinalityType DEF BoundInv
<1>3. /\ IsFiniteSet(Registered')
      /\ Cardinality(Registered') <= Cardinality(Registered)
  BY FS_Subset, RegisteredFinite
<1>4. Cardinality(Registered') \in Nat
  BY <1>3, FS_CardinalityType
<1>5. \A d, e \in entries' : d.key = e.key => d = e
  BY DEF BoundInv, CacheBounded
<1> QED
  BY <1>1, <1>2, <1>3, <1>4, <1>5, RegisteredFinite, LimitsAssumption
  DEF BoundInv, CacheBounded

(* The result of a flight displaces what it must and no more.              *)
LEMMA BoundAfterStore ==
  ASSUME TypeOK, BoundInv, NEW f \in Flights, Store(f), Registered' \subseteq Registered
  PROVE  BoundInv'
<1> DEFINE new == [key |-> flight[f].key, version |-> flight[f].version,
                   expires |-> now + ttl]
<1>1. PICK kept \in MakeRoom :
        entries' = {e \in kept : e.key # flight[f].key} \cup {new}
  BY DEF Store
<1> DEFINE rest == {e \in kept : e.key # flight[f].key}
<1>2. Cardinality(entries) \in Nat
  BY FS_CardinalityType DEF BoundInv
<1>3. /\ kept \subseteq entries /\ IsFiniteSet(kept)
      /\ Cardinality(kept) \in Nat /\ Cardinality(kept) < queryCacheEntries
  <2>1. CASE Cardinality(entries) >= queryCacheEntries
    <3>1. PICK e \in Oldest : kept = entries \ {e}
      BY <1>1, <2>1 DEF MakeRoom
    <3>2. e \in entries
      BY DEF Oldest
    <3>3. IsFiniteSet(kept) /\ Cardinality(kept) = Cardinality(entries) - 1
      BY <3>1, <3>2, FS_RemoveElement DEF BoundInv
    <3>4. Cardinality(kept) \in Nat
      BY <3>3, FS_CardinalityType
    <3> QED
      BY <1>2, <3>1, <3>3, <3>4, LimitsAssumption DEF BoundInv, CacheBounded
  <2>2. CASE ~(Cardinality(entries) >= queryCacheEntries)
    <3>1. kept = entries
      BY <1>1, <2>2 DEF MakeRoom
    <3> QED
      BY <1>2, <2>2, <3>1, LimitsAssumption DEF BoundInv
  <2> QED
    BY <2>1, <2>2
<1>4. /\ IsFiniteSet(rest) /\ Cardinality(rest) \in Nat
      /\ Cardinality(rest) <= Cardinality(kept) /\ new \notin rest
  BY <1>3, FS_Subset, FS_CardinalityType
<1>5. /\ IsFiniteSet(entries') /\ Cardinality(entries') = Cardinality(rest) + 1
  BY <1>1, <1>4, FS_AddElement
<1>6. Cardinality(entries') <= queryCacheEntries
  BY <1>3, <1>4, <1>5, LimitsAssumption
<1>7. \A d, e \in entries' : d.key = e.key => d = e
  BY <1>1, <1>3 DEF BoundInv, CacheBounded
<1>8. Cardinality(Registered') <= queryFlightLimit
  <2>1. /\ IsFiniteSet(Registered')
        /\ Cardinality(Registered') <= Cardinality(Registered)
    BY FS_Subset, RegisteredFinite
  <2> QED
    BY <2>1, FS_CardinalityType, RegisteredFinite, LimitsAssumption
    DEF BoundInv, CacheBounded
<1> QED
  BY <1>5, <1>6, <1>7, <1>8 DEF BoundInv, CacheBounded

(* A new flight is registered only while there is room for it.             *)
LEMMA BoundAfterStart ==
  ASSUME TypeOK, BoundInv, NEW c \in Callers, NEW k \in Keys,
         NEW refresh \in BOOLEAN, NEW f \in Flights, StartFlight(c, k, refresh, f)
  PROVE  BoundInv'
<1> USE DEF StartFlight
<1>1. Registered' = Registered \cup {k} /\ k \notin Registered
  BY IdentitiesAssumption DEF Registered, TypeOK
<1>2. Cardinality(Registered') = Cardinality(Registered) + 1
  BY <1>1, RegisteredFinite, FS_AddElement
<1>3. Cardinality(Registered') <= queryFlightLimit
  BY <1>2, RegisteredFinite, LimitsAssumption
<1>4. /\ entries' \subseteq entries /\ IsFiniteSet(entries')
      /\ Cardinality(entries') <= Cardinality(entries)
  BY FS_Subset DEF Unexpired, BoundInv
<1>5. Cardinality(entries) \in Nat /\ Cardinality(entries') \in Nat
  BY <1>4, FS_CardinalityType DEF BoundInv
<1> QED
  BY <1>3, <1>4, <1>5, LimitsAssumption DEF BoundInv, CacheBounded

LEMMA NextBound == IInv /\ BoundInv /\ [Next]_vars => BoundInv'
<1> SUFFICES ASSUME IInv, BoundInv, [Next]_vars
             PROVE  BoundInv'
  OBVIOUS
<1> USE DEF Registered
<1>0. TypeOK
  BY DEF IInv
<1>1. ASSUME NEW c \in Callers, NEW k \in Keys, NEW refresh \in BOOLEAN,
             HitCache(c, k) \/ JoinFlight(c, k, refresh) \/ RejectFull(c, k, refresh)
      PROVE  BoundInv'
  BY <1>1, BoundAfterShrinking DEF HitCache, JoinFlight, RejectFull, Unexpired
<1>2. ASSUME NEW c \in Callers, Disconnect(c) \/ Leave(c) \/ Receive(c)
      PROVE  BoundInv'
  <2>1. entries' = entries /\ Registered' \subseteq Registered
    BY <1>2 DEF Disconnect, Leave, Receive, Deregister
  <2> QED
    BY <2>1, BoundAfterShrinking
<1>3. ASSUME NEW f \in Flights,
             AcquireSlot(f) \/ AbandonSlot(f) \/ ExecuteOk(f) \/ ExecuteFail(f)
      PROVE  BoundInv'
  BY <1>3, BoundAfterShrinking DEF AcquireSlot, AbandonSlot, ExecuteOk, ExecuteFail
<1>4. ASSUME NEW f \in Flights, Finish(f)
      PROVE  BoundInv'
  <2>1. Registered' \subseteq Registered
    BY <1>4 DEF Finish, Deregister
  <2>2. CASE MayStore(f)
    BY <1>0, <1>4, <2>1, <2>2, BoundAfterStore DEF Finish
  <2>3. CASE ~MayStore(f)
    BY <1>4, <2>1, <2>3, BoundAfterShrinking DEF Finish
  <2> QED
    BY <2>2, <2>3
<1>5. ASSUME NEW p \in Previews,
             PreviewAsk(p) \/ PreviewStart(p) \/ PreviewAbandon(p) \/ PreviewEnd(p)
      PROVE  BoundInv'
  BY <1>5, BoundAfterShrinking
  DEF PreviewAsk, PreviewStart, PreviewAbandon, PreviewEnd
<1>6. CASE WriteSource \/ Tick \/ UNCHANGED vars
  BY <1>6, BoundAfterShrinking DEF WriteSource, Tick, vars
<1> QED
  BY <1>0, <1>1, <1>2, <1>3, <1>4, <1>5, <1>6, BoundAfterStart DEF Next, Request

(* The maps never outgrow their limits and keep one result per query.      *)
THEOREM CacheAlwaysBounded == Spec => []CacheBounded
<1>1. Init => BoundInv
  <2> SUFFICES ASSUME Init PROVE BoundInv
    OBVIOUS
  <2>1. entries = {} /\ Registered = {}
    BY DEF Init, Registered
  <2> QED
    BY <2>1, FS_EmptySet, LimitsAssumption DEF BoundInv, CacheBounded
<1>2. BoundInv => CacheBounded
  BY DEF BoundInv
<1> QED
  BY <1>1, <1>2, NextBound, SpecInv, PTL DEF Spec

----------------------------------------------------------------------------
(* Freshness.                                                              *)

(* What is cached is the newest version cached so far, which exists.       *)
CacheFresh ==
  /\ \A k \in Keys : newest[k] <= source
  /\ \A e \in entries : e.version = newest[e.key]

(* A flight that has its rows and is still wanted was not overtaken.       *)
FlightFresh ==
  \A f \in Flights :
    /\ flight[f].version <= source
    /\ flight[f].stage \in {"free", "queued", "executing"} =>
         flight[f].outcome = "error"
    /\ flight[f].stage = "returned" /\ flight[f].outcome # "error"
         /\ ~flight[f].cancelled => newest[flight[f].key] <= flight[f].version

(* A waiting request asked before its flight had read the source.          *)
FloorKept(r) ==
  /\ Running(r.flight) => r.floor <= newest[flight[r.flight].key]
  /\ flight[r.flight].outcome # "error" => r.floor <= flight[r.flight].version

CallerFresh ==
  \A c \in Callers : caller[c].pc = "waiting" => FloorKept(caller[c])

FreshInv == CacheFresh /\ FlightFresh /\ CallerFresh /\ NoStaleAnswer

(* What a request must satisfy; the flights move on without changing it.   *)
FreshCaller(r) ==
  /\ r.pc = "answered" => r.got >= r.floor
  /\ r.pc = "waiting" =>
       /\ r.flight \in Flights
       /\ FloorKept(r)

(* A step of one request that neither reads nor caches a result.           *)
LEMMA FreshAfterCaller ==
  ASSUME IInv, FreshInv, NEW c \in Callers, NEW r, FreshCaller(r),
         caller' = [caller EXCEPT ![c] = r], entries' \subseteq entries,
         UNCHANGED <<source, newest>>,
         \A f \in Flights : /\ flight'[f].stage = flight[f].stage
                            /\ flight'[f].key = flight[f].key
                            /\ flight'[f].outcome = flight[f].outcome
                            /\ flight'[f].version = flight[f].version
                            /\ flight[f].cancelled => flight'[f].cancelled
  PROVE  FreshInv'
<1> USE DEF FreshInv
<1>1. /\ caller'[c] = r
      /\ \A d \in Callers : d # c => caller'[d] = caller[d]
  BY DEF IInv, TypeOK
<1>2. CacheFresh'
  BY DEF CacheFresh
<1>3. FlightFresh'
  BY DEF FlightFresh
<1>4. CallerFresh'
  <2> SUFFICES ASSUME NEW d \in Callers, caller'[d].pc = "waiting"
               PROVE  FloorKept(caller[d])'
    BY DEF CallerFresh
  <2>1. CASE d = c
    BY <1>1, <2>1 DEF FreshCaller, FloorKept, Running
  <2>2. CASE d # c
    <3>1. caller'[d] = caller[d] /\ caller[d].flight \in Flights
      BY <1>1, <2>2 DEF IInv, Links, CallerLinks
    <3> QED
      BY <3>1 DEF CallerFresh, FloorKept, Running
  <2> QED
    BY <2>1, <2>2
<1>5. NoStaleAnswer'
  BY <1>1 DEF NoStaleAnswer, FreshCaller
<1> QED
  BY <1>2, <1>3, <1>4, <1>5

LEMMA HitCacheFresh ==
  ASSUME IInv, FreshInv, NEW c \in Callers, NEW k \in Keys, HitCache(c, k)
  PROVE  FreshInv'
<1>1. PICK e \in Hits(k) :
        caller' = [caller EXCEPT ![c] = Resting("answered", newest[k], e.version)]
  BY DEF HitCache
<1>2. e.version = newest[k] /\ newest[k] \in Nat
  BY <1>1 DEF Hits, Unexpired, FreshInv, CacheFresh, IInv, TypeOK
<1>3. FreshCaller(Resting("answered", newest[k], e.version))
  BY <1>2 DEF FreshCaller, Resting
<1> QED
  BY <1>1, <1>3, FreshAfterCaller DEF HitCache, Unexpired

(* Whoever joins a flight joins one that was not overtaken.                *)
LEMMA JoinFlightFresh ==
  ASSUME IInv, FreshInv, NEW c \in Callers, NEW k \in Keys,
         NEW refresh \in BOOLEAN, JoinFlight(c, k, refresh)
  PROVE  FreshInv'
<1> DEFINE g == flights[k]
<1>1. /\ g \in Flights /\ Running(g) /\ flight[g].key = k
      /\ ~flight[g].cancelled
  BY DEF JoinFlight, IInv, Links, MapLinks, TypeOK
<1>2. flight[g].outcome # "error" => newest[k] <= flight[g].version
  BY <1>1 DEF FreshInv, FlightFresh, Running
<1>3. FreshCaller(Waiting(g, newest[k]))
  <2>1. newest[k] \in Nat
    BY DEF IInv, TypeOK
  <2> QED
    BY <1>1, <1>2, <2>1 DEF FreshCaller, FloorKept, Waiting
<1>4. \A f \in Flights : /\ flight'[f].stage = flight[f].stage
                         /\ flight'[f].key = flight[f].key
                         /\ flight'[f].outcome = flight[f].outcome
                         /\ flight'[f].version = flight[f].version
                         /\ flight[f].cancelled => flight'[f].cancelled
  BY <1>1 DEF JoinFlight, IInv, TypeOK, Flight
<1> QED
  BY <1>3, <1>4, FreshAfterCaller DEF JoinFlight, Unexpired

LEMMA RestFresh ==
  ASSUME IInv, FreshInv, NEW c \in Callers,
         \/ \E k \in Keys, refresh \in BOOLEAN : RejectFull(c, k, refresh)
         \/ Disconnect(c) \/ Leave(c) \/ Receive(c)
  PROVE  FreshInv'
<1> DEFINE f == caller[c].flight
<1>1. PICK r : caller' = [caller EXCEPT ![c] = r] /\ FreshCaller(r)
  <2>1. CASE \/ \E k \in Keys, refresh \in BOOLEAN : RejectFull(c, k, refresh)
             \/ Leave(c)
    <3>1. caller' = [caller EXCEPT ![c] = Resting("failed", 0, 0)]
      BY <2>1 DEF RejectFull, Leave
    <3>2. FreshCaller(Resting("failed", 0, 0))
      BY DEF FreshCaller, Resting
    <3> QED
      BY <3>1, <3>2
  <2>2. CASE Disconnect(c)
    <3>1. caller' = [caller EXCEPT ![c] = [caller[c] EXCEPT !.gone = TRUE]]
      BY <2>2 DEF Disconnect
    <3>2. FreshCaller([caller[c] EXCEPT !.gone = TRUE])
      BY <2>2 DEF Disconnect, FreshCaller, FloorKept, FreshInv, CallerFresh, IInv, Links,
                  CallerLinks, TypeOK, Caller
    <3> QED
      BY <3>1, <3>2
  <2>3. CASE Receive(c)
    <3> DEFINE r == IF caller[c].gone \/ flight[f].outcome = "error"
                      THEN Resting("failed", 0, 0)
                      ELSE Resting("answered", caller[c].floor, flight[f].version)
    <3>1. caller' = [caller EXCEPT ![c] = r]
      BY <2>3 DEF Receive
    <3>2. /\ f \in Flights
          /\ flight[f].outcome # "error" => caller[c].floor <= flight[f].version
          /\ caller[c].floor \in Nat /\ flight[f].version \in Nat
      BY <2>3 DEF Receive, FloorKept, FreshInv, CallerFresh, IInv, Links, CallerLinks,
                  TypeOK, Caller, Flight
    <3>3. FreshCaller(r)
      BY <3>2 DEF FreshCaller, Resting
    <3> QED
      BY <3>1, <3>3
  <2> QED
    BY <2>1, <2>2, <2>3
<1>2. UNCHANGED <<source, newest>> /\ entries' \subseteq entries
  BY DEF RejectFull, Disconnect, Leave, Receive, Unexpired
<1>3. \A g \in Flights : /\ flight'[g].stage = flight[g].stage
                         /\ flight'[g].key = flight[g].key
                         /\ flight'[g].outcome = flight[g].outcome
                         /\ flight'[g].version = flight[g].version
                         /\ flight[g].cancelled => flight'[g].cancelled
  <2>1. CASE Leave(c)
    <3>1. f \in Flights
      BY <2>1 DEF Leave, IInv, Links, CallerLinks
    <3>2. flight' = [flight EXCEPT ![f].waiters = @ - 1,
                                   ![f].cancelled = @ \/ LastWaiter(f)]
      BY <2>1 DEF Leave
    <3> HIDE DEF f
    <3> QED
      BY <3>1, <3>2 DEF IInv, TypeOK, Flight
  <2>2. CASE ~Leave(c)
    BY <2>2 DEF RejectFull, Disconnect, Receive
  <2> QED
    BY <2>1, <2>2
<1> QED
  BY <1>1, <1>2, <1>3, FreshAfterCaller

LEMMA StartFlightFresh ==
  ASSUME IInv, FreshInv, NEW c \in Callers, NEW k \in Keys,
         NEW refresh \in BOOLEAN, NEW g \in Flights, StartFlight(c, k, refresh, g)
  PROVE  FreshInv'
<1> USE DEF FreshInv, StartFlight
<1>1. /\ flight'[g] = NewFlight(k)
      /\ \A f \in Flights : f # g => flight'[f] = flight[f]
      /\ caller'[c] = Waiting(g, newest[k])
      /\ \A d \in Callers : d # c => caller'[d] = caller[d]
      /\ source \in Nat /\ newest[k] \in Nat
  BY DEF IInv, TypeOK
<1>2. CacheFresh'
  BY DEF CacheFresh, Unexpired
<1>3. FlightFresh'
  BY <1>1 DEF FlightFresh, NewFlight
<1>4. CallerFresh'
  <2> SUFFICES ASSUME NEW d \in Callers, caller'[d].pc = "waiting"
               PROVE  FloorKept(caller[d])'
    BY DEF CallerFresh
  <2>1. CASE d = c
    BY <1>1, <2>1 DEF FloorKept, Waiting, NewFlight
  <2>2. CASE d # c
    <3>1. /\ caller'[d] = caller[d] /\ caller[d].flight \in Flights
          /\ caller[d].flight # g
      BY <1>1, <2>2 DEF IInv, Links, CallerLinks, Collectable, Attached
    <3> QED
      BY <1>1, <3>1 DEF CallerFresh, FloorKept, Running
  <2> QED
    BY <2>1, <2>2
<1>5. NoStaleAnswer'
  BY <1>1 DEF NoStaleAnswer, Waiting
<1> QED
  BY <1>2, <1>3, <1>4, <1>5

(* A flight that reads the source reads what is at least as new as all     *)
(* that is cached; one that fails has nothing to show.                     *)
LEMMA FlightStepFresh ==
  ASSUME IInv, FreshInv, NEW f \in Flights,
         AcquireSlot(f) \/ AbandonSlot(f) \/ ExecuteOk(f) \/ ExecuteFail(f)
  PROVE  FreshInv'
<1> USE DEF FreshInv
<1>1. /\ UNCHANGED <<source, entries, caller, newest>>
      /\ Running(f)
  BY DEF AcquireSlot, AbandonSlot, ExecuteOk, ExecuteFail, Running
<1>2. /\ \A g \in Flights : /\ flight'[g].key = flight[g].key
                            /\ flight'[g].cancelled = flight[g].cancelled
                            /\ g # f => flight'[g] = flight[g]
      /\ Running(f)'
      /\ \/ flight'[f].outcome = "error" /\ flight'[f].version = flight[f].version
         \/ flight'[f].stage = "returned" /\ flight'[f].version = source
  <2>1. CASE ExecuteOk(f)
    BY <2>1 DEF ExecuteOk, IInv, TypeOK, Flight, Running
  <2>2. CASE AcquireSlot(f) \/ AbandonSlot(f) \/ ExecuteFail(f)
    BY <2>2 DEF AcquireSlot, AbandonSlot, ExecuteFail, IInv, TypeOK, Flight,
                Running, FlightFresh
  <2> QED
    BY <2>1, <2>2
<1>3. /\ source \in Nat /\ flight[f].key \in Keys
      /\ newest[flight[f].key] <= source /\ newest[flight[f].key] \in Nat
  BY <1>1 DEF IInv, TypeOK, Links, FlightLinks, Running, CacheFresh
<1>4. CacheFresh'
  BY <1>1 DEF CacheFresh
<1>5. FlightFresh'
  BY <1>1, <1>2, <1>3 DEF FlightFresh, Running
<1>6. CallerFresh'
  <2> SUFFICES ASSUME NEW d \in Callers, caller[d].pc = "waiting"
               PROVE  FloorKept(caller[d])'
    BY <1>1 DEF CallerFresh
  <2>1. caller[d].flight \in Flights /\ caller[d].floor \in Nat
    BY DEF IInv, Links, CallerLinks, TypeOK, Caller
  <2>2. CASE caller[d].flight = f
    BY <1>1, <1>2, <1>3, <2>1, <2>2 DEF CallerFresh, FloorKept
  <2>3. CASE caller[d].flight # f
    BY <1>1, <1>2, <2>1, <2>3 DEF CallerFresh, FloorKept, Running
  <2> QED
    BY <2>2, <2>3
<1>7. NoStaleAnswer'
  BY <1>1 DEF NoStaleAnswer
<1> QED
  BY <1>4, <1>5, <1>6, <1>7

(* Only the flight that is registered for a query caches its result, so    *)
(* the version cached for the query never goes back.                       *)
LEMMA FinishFresh ==
  ASSUME IInv, FreshInv, NEW f \in Flights, Finish(f)
  PROVE  FreshInv' /\ \A k \in Keys : newest[k] <= newest'[k]
<1> USE DEF FreshInv, Finish
<1> DEFINE k == flight[f].key
<1>1. /\ k \in Keys /\ Running(f) /\ flight[f].version \in Nat
      /\ source \in Nat /\ flight[f].version <= source
      /\ newest \in [Keys -> Nat]
  BY DEF IInv, TypeOK, Links, FlightLinks, Running, Flight, FlightFresh
<1>2. \A g \in Flights : /\ flight'[g].key = flight[g].key
                         /\ flight'[g].cancelled = flight[g].cancelled
                         /\ flight'[g].outcome = flight[g].outcome
                         /\ flight'[g].version = flight[g].version
                         /\ g # f => flight'[g].stage = flight[g].stage
                         /\ flight'[f].stage = "done"
  BY DEF IInv, TypeOK, Flight
<1>3. MayStore(f) => newest[k] <= flight[f].version
  BY DEF MayStore, FlightFresh
<1>4. /\ MayStore(f) => newest' = [newest EXCEPT ![k] = flight[f].version]
      /\ ~MayStore(f) => newest' = newest
  BY DEF Store
<1>5. \A j \in Keys : newest[j] <= newest'[j] /\ newest'[j] <= source
  BY <1>1, <1>3, <1>4 DEF CacheFresh
<1>6. CacheFresh'
  <2>1. CASE MayStore(f)
    <3>1. PICK kept \in MakeRoom :
            entries' = {e \in kept : e.key # k}
                         \cup {[key |-> k, version |-> flight[f].version,
                                expires |-> now + ttl]}
      BY <2>1 DEF Store
    <3>2. kept \subseteq entries
      BY DEF MakeRoom
    <3>3. \A e \in entries' : e.version = newest'[e.key]
      BY <1>1, <1>4, <2>1, <3>1, <3>2 DEF CacheFresh, IInv, TypeOK, Entry
    <3> QED
      BY <1>5, <3>3 DEF CacheFresh
  <2>2. CASE ~MayStore(f)
    BY <2>2 DEF CacheFresh
  <2> QED
    BY <2>1, <2>2
<1>7. FlightFresh'
  <2> SUFFICES ASSUME NEW g \in Flights
               PROVE  FlightFresh!(g)'
    BY DEF FlightFresh
  <2>1. CASE g = f
    BY <1>1, <1>2, <2>1 DEF FlightFresh
  <2>2. ASSUME g # f, flight[g].stage = "returned", flight[g].outcome # "error",
               ~flight[g].cancelled
        PROVE  newest'[flight[g].key] = newest[flight[g].key]
    <3>1. flights[flight[g].key] = g /\ flight[g].key \in Keys
      BY <2>2 DEF IInv, Links, FlightLinks, Running
    <3>2. MayStore(f) => flight[g].key # k
      BY <2>2, <3>1 DEF MayStore
    <3> QED
      BY <1>1, <1>4, <3>1, <3>2
  <2> QED
    BY <1>2, <2>1, <2>2 DEF FlightFresh
<1>8. CallerFresh'
  <2> SUFFICES ASSUME NEW d \in Callers, caller[d].pc = "waiting"
               PROVE  FloorKept(caller[d])'
    BY DEF CallerFresh
  <2>1. caller[d].flight \in Flights /\ caller[d].floor \in Nat
    BY DEF IInv, Links, CallerLinks, TypeOK, Caller
  <2>2. Running(caller[d].flight) => flight[caller[d].flight].key \in Keys
    BY <2>1 DEF IInv, Links, FlightLinks, Running
  <2>3. Running(caller[d].flight)' => Running(caller[d].flight)
    BY <1>2, <2>1 DEF Running
  <2>4. /\ newest' \in [Keys -> Nat]
        /\ \A j \in Keys : newest[j] <= newest'[j]
    BY <1>1, <1>4, <1>5
  <2> QED
    BY <1>1, <1>2, <2>1, <2>2, <2>3, <2>4 DEF CallerFresh, FloorKept
<1>9. NoStaleAnswer'
  BY DEF NoStaleAnswer
<1> QED
  BY <1>5, <1>6, <1>7, <1>8, <1>9

(* Writers and the clock only make the source newer.                       *)
LEMMA OtherFresh ==
  ASSUME IInv, FreshInv,
         \/ WriteSource \/ Tick \/ UNCHANGED vars
         \/ \E p \in Previews : \/ PreviewAsk(p) \/ PreviewStart(p)
                                \/ PreviewAbandon(p) \/ PreviewEnd(p)
  PROVE  FreshInv'
<1> USE DEF FreshInv
<1>1. /\ UNCHANGED <<entries, flight, caller, newest>>
      /\ source' \in Nat /\ source <= source' /\ source \in Nat
  BY DEF WriteSource, Tick, vars, PreviewAsk, PreviewStart, PreviewAbandon,
         PreviewEnd, IInv, TypeOK
<1>2. CacheFresh'
  <2>1. \A k \in Keys : newest[k] \in Nat
    BY DEF IInv, TypeOK
  <2> QED
    BY <1>1, <2>1 DEF CacheFresh
<1>3. FlightFresh'
  <2>1. \A f \in Flights : flight[f].version \in Nat
    BY DEF IInv, TypeOK, Flight
  <2> QED
    BY <1>1, <2>1 DEF FlightFresh
<1>4. CallerFresh' /\ NoStaleAnswer'
  BY <1>1 DEF CallerFresh, FloorKept, NoStaleAnswer, Running
<1> QED
  BY <1>2, <1>3, <1>4

LEMMA NextFresh == IInv /\ FreshInv /\ [Next]_vars => FreshInv'
<1> SUFFICES ASSUME IInv, FreshInv, [Next]_vars
             PROVE  FreshInv'
  OBVIOUS
<1>1. ASSUME NEW c \in Callers, Request(c)
      PROVE  FreshInv'
  BY <1>1, HitCacheFresh, JoinFlightFresh, RestFresh, StartFlightFresh DEF Request
<1>2. ASSUME NEW c \in Callers, Disconnect(c) \/ Leave(c) \/ Receive(c)
      PROVE  FreshInv'
  BY <1>2, RestFresh
<1>3. ASSUME NEW f \in Flights,
             AcquireSlot(f) \/ AbandonSlot(f) \/ ExecuteOk(f) \/ ExecuteFail(f)
               \/ Finish(f)
      PROVE  FreshInv'
  BY <1>3, FlightStepFresh, FinishFresh
<1> QED
  BY <1>1, <1>2, <1>3, OtherFresh DEF Next

LEMMA InitFresh == Init => FreshInv
BY DEF Init, FreshInv, CacheFresh, FlightFresh, CallerFresh, FloorKept,
       NoStaleAnswer,
       Resting, NoFlight

LEMMA SpecFresh == Spec => []FreshInv
BY InitFresh, NextFresh, SpecInv, PTL DEF Spec

(* No request is answered with data older than a result cached for its     *)
(* query when it began.                                                    *)
THEOREM NeverStale == Spec => []NoStaleAnswer
<1>1. FreshInv => NoStaleAnswer
  BY DEF FreshInv
<1> QED
  BY <1>1, SpecFresh, PTL

----------------------------------------------------------------------------
(* The refinement.                                                         *)

Seen(r) == [state |-> r.pc, floor |-> r.floor, got |-> r.got]

request == [c \in Callers |-> Seen(caller[c])]

(* A step of one request changes the request it stands for and no other.   *)
LEMMA RequestAfterCaller ==
  ASSUME TypeOK, NEW c \in Callers, NEW r, caller' = [caller EXCEPT ![c] = r]
  PROVE  request' = [request EXCEPT ![c] = Seen(r)]
BY DEF TypeOK, request

(* What requests that wait or rest look like to the abstract service.      *)
LEMMA SeenStates ==
  ASSUME NEW floor, NEW got, NEW f
  PROVE  /\ Seen(Waiting(f, floor)) = Answers!Pending(floor)
         /\ Seen(Resting("answered", floor, got)) = Answers!Answered(floor, got)
         /\ Seen(Resting("failed", 0, 0)) = Answers!Failed
BY DEF Seen, Waiting, Resting, Answers!Pending, Answers!Answered, Answers!Failed

LEMMA RequestRefines ==
  ASSUME IInv, FreshInv, NEW c \in Callers, Request(c)
  PROVE  Answers!Next
<1> USE DEF Answers!Next
<1>1. TypeOK /\ request[c].state = caller[c].pc
  BY DEF IInv, request, Seen
<1>2. PICK k \in Keys :
        \/ HitCache(c, k)
        \/ \E refresh \in BOOLEAN :
             \/ JoinFlight(c, k, refresh)
             \/ RejectFull(c, k, refresh)
             \/ \E f \in Flights : StartFlight(c, k, refresh, f)
  BY DEF Request
<1>3. CASE HitCache(c, k)
  <2>1. PICK e \in Hits(k) :
          caller' = [caller EXCEPT ![c] = Resting("answered", newest[k], e.version)]
    BY <1>3 DEF HitCache
  <2>2. /\ e.version = newest[k] /\ newest[k] \in Nat /\ source \in Nat
        /\ newest[k] <= source
    BY <2>1 DEF Hits, Unexpired, FreshInv, CacheFresh, IInv, TypeOK
  <2>3. request' = [request EXCEPT ![c] = Answers!Answered(newest[k], e.version)]
    BY <1>1, <2>1, RequestAfterCaller, SeenStates
  <2>4. UNCHANGED <<source, newest>> /\ caller[c].pc # "waiting"
    BY <1>3 DEF HitCache, Ready
  <2>5. Answers!AnswerAtOnce(c, k, e.version)
    BY <1>1, <2>2, <2>3, <2>4 DEF Answers!AnswerAtOnce, request, Seen
  <2>6. e.version \in 0..source
    BY <2>2
  <2> QED
    BY <2>5, <2>6
<1>4. ASSUME NEW f \in Flights, caller' = [caller EXCEPT ![c] = Waiting(f, newest[k])],
             caller[c].pc # "waiting", UNCHANGED <<source, newest>>
      PROVE  Answers!Next
  <2>1. request' = [request EXCEPT ![c] = Answers!Pending(newest[k])]
    <3>1. request' = [request EXCEPT ![c] = Seen(Waiting(f, newest[k]))]
      BY <1>1, <1>4, RequestAfterCaller
    <3>2. Seen(Waiting(f, newest[k])) = Answers!Pending(newest[k])
      BY SeenStates
    <3> QED
      BY <3>1, <3>2
  <2>2. Answers!Ask(c, k)
    BY <1>1, <1>4, <2>1 DEF Answers!Ask, request, Seen
  <2> QED
    BY <2>2
<1>5. ASSUME NEW refresh \in BOOLEAN, JoinFlight(c, k, refresh)
      PROVE  Answers!Next
  <2>1. flights[k] \in Flights
    BY <1>5 DEF JoinFlight, IInv, TypeOK
  <2> QED
    BY <1>4, <1>5, <2>1 DEF JoinFlight, Ready
<1>6. ASSUME NEW refresh \in BOOLEAN, NEW f \in Flights, StartFlight(c, k, refresh, f)
      PROVE  Answers!Next
  BY <1>4, <1>6 DEF StartFlight, Ready
<1>7. ASSUME NEW refresh \in BOOLEAN, RejectFull(c, k, refresh)
      PROVE  Answers!Next
  <2>1. caller' = [caller EXCEPT ![c] = Resting("failed", 0, 0)]
    BY <1>7 DEF RejectFull
  <2>2. request' = [request EXCEPT ![c] = Answers!Failed]
    BY <1>1, <2>1, RequestAfterCaller, SeenStates
  <2>3. Answers!RefuseAtOnce(c)
    BY <1>1, <1>7, <2>2 DEF Answers!RefuseAtOnce, request, Seen, RejectFull, Ready
  <2> QED
    BY <2>3
<1> QED
  BY <1>2, <1>3, <1>5, <1>6, <1>7

LEMMA WaitEndRefines ==
  ASSUME IInv, FreshInv, NEW c \in Callers, Leave(c) \/ Receive(c)
  PROVE  Answers!Next
<1> USE DEF Answers!Next
<1>1. TypeOK /\ request[c].state = caller[c].pc /\ request[c].floor = caller[c].floor
  BY DEF IInv, request, Seen
<1>2. caller[c].pc = "waiting" /\ UNCHANGED <<source, newest>>
  BY DEF Leave, Receive
<1>3. CASE caller' = [caller EXCEPT ![c] = Resting("failed", 0, 0)]
  <2>1. request' = [request EXCEPT ![c] = Answers!Failed]
    BY <1>1, <1>3, RequestAfterCaller, SeenStates
  <2>2. Answers!Fail(c)
    BY <1>1, <1>2, <2>1 DEF Answers!Fail, request, Seen
  <2> QED
    BY <2>2
<1>4. CASE Receive(c) /\ ~(caller' = [caller EXCEPT ![c] = Resting("failed", 0, 0)])
  <2>1. PICK v \in 0..source :
          /\ caller' = [caller EXCEPT ![c] = Resting("answered", caller[c].floor, v)]
          /\ caller[c].floor <= v /\ v <= source
    <3> DEFINE w == flight[caller[c].flight].version
    <3>1. /\ caller' = [caller EXCEPT ![c] = Resting("answered", caller[c].floor, w)]
          /\ flight[caller[c].flight].outcome # "error"
      BY <1>4 DEF Receive
    <3>2. w \in 0..source /\ caller[c].floor <= w /\ w <= source
      BY <1>2, <3>1 DEF FreshInv, FlightFresh, CallerFresh, FloorKept, IInv, Links,
                        CallerLinks, TypeOK, Caller, Flight
    <3> HIDE DEF w
    <3> QED
      BY <3>1, <3>2
  <2>2. request' = [request EXCEPT ![c] = Answers!Answered(caller[c].floor, v)]
    <3>1. request' = [request EXCEPT ![c] =
                        Seen(Resting("answered", caller[c].floor, v))]
      BY <1>1, <2>1, RequestAfterCaller
    <3>2. Seen(Resting("answered", caller[c].floor, v))
            = Answers!Answered(caller[c].floor, v)
      BY SeenStates
    <3> QED
      BY <3>1, <3>2
  <2>3. Answers!Answer(c, v)
    BY <1>1, <1>2, <2>1, <2>2 DEF Answers!Answer, request, Seen
  <2> QED
    BY <2>3
<1> QED
  BY <1>3, <1>4 DEF Leave

LEMMA FinishRefines ==
  ASSUME IInv, FreshInv, NEW f \in Flights, Finish(f)
  PROVE  [Answers!Next]_Answers!vars
<1> USE DEF Answers!Next, Answers!vars
<1> DEFINE k == flight[f].key
           v == flight[f].version
<1>1. UNCHANGED <<source, caller>> /\ request' = request
  BY DEF Finish, request
<1>2. CASE MayStore(f)
  <2>1. newest' = [newest EXCEPT ![k] = v]
    BY <1>2 DEF Finish, Store
  <2>2. k \in Keys /\ newest[k] <= v
    BY <1>2 DEF Finish, MayStore, FreshInv, FlightFresh, IInv, Links, FlightLinks
  <2>3. v \in Nat /\ v <= source /\ source \in Nat
    BY DEF FreshInv, FlightFresh, IInv, TypeOK, Flight
  <2>4. Answers!Keep(k, v) /\ v \in 0..source
    BY <1>1, <2>1, <2>2, <2>3 DEF Answers!Keep
  <2> HIDE DEF k, v
  <2> QED
    BY <2>2, <2>4
<1>3. CASE ~MayStore(f)
  BY <1>1, <1>3 DEF Finish
<1> QED
  BY <1>2, <1>3

(* The steps of the flights and previews that change nothing the abstract  *)
(* service has, and the client going away.                                 *)
LEMMA OtherRefines ==
  ASSUME IInv,
         \/ UNCHANGED <<source, newest, caller>>
         \/ \E c \in Callers : Disconnect(c)
         \/ WriteSource
  PROVE  [Answers!Next]_Answers!vars
<1> USE DEF request, Answers!vars
<1>1. CASE UNCHANGED <<source, newest, caller>>
  BY <1>1
<1>2. ASSUME NEW c \in Callers, Disconnect(c)
      PROVE  UNCHANGED Answers!vars
  <2>1. \A d \in Callers : /\ caller'[d].pc = caller[d].pc
                           /\ caller'[d].floor = caller[d].floor
                           /\ caller'[d].got = caller[d].got
    BY <1>2 DEF Disconnect, IInv, TypeOK, Caller
  <2> QED
    BY <1>2, <2>1 DEF Disconnect
<1>3. CASE WriteSource
  <2>1. Answers!WriteSource
    BY <1>3 DEF WriteSource, Answers!WriteSource
  <2> QED
    BY <2>1 DEF Answers!Next
<1> QED
  BY <1>1, <1>2, <1>3

(* The cache with its flights and slots implements the abstract service:   *)
(* every answer is a version of the source that exists and that is not     *)
(* older than what was cached when the request began.                      *)
THEOREM CacheImplementsAnswers == Spec => ImplementsAnswers
<1>1. Init => Answers!Init
  BY DEF Init, Answers!Init, Answers!Idle, Resting
<1>2. IInv /\ FreshInv /\ [Next]_vars => [Answers!Next]_Answers!vars
  <2> SUFFICES ASSUME IInv, FreshInv, [Next]_vars
               PROVE  [Answers!Next]_Answers!vars
    OBVIOUS
  <2>1. ASSUME NEW c \in Callers, Request(c) \/ Leave(c) \/ Receive(c)
        PROVE  Answers!Next
    BY <2>1, RequestRefines, WaitEndRefines
  <2>2. ASSUME NEW f \in Flights,
               AcquireSlot(f) \/ AbandonSlot(f) \/ ExecuteOk(f) \/ ExecuteFail(f)
        PROVE  UNCHANGED <<source, newest, caller>>
    BY <2>2 DEF AcquireSlot, AbandonSlot, ExecuteOk, ExecuteFail
  <2>3. ASSUME NEW p \in Previews,
               PreviewAsk(p) \/ PreviewStart(p) \/ PreviewAbandon(p) \/ PreviewEnd(p)
        PROVE  UNCHANGED <<source, newest, caller>>
    BY <2>3 DEF PreviewAsk, PreviewStart, PreviewAbandon, PreviewEnd
  <2>4. Tick \/ UNCHANGED vars => UNCHANGED <<source, newest, caller>>
    BY DEF Tick, vars
  <2> QED
    BY <2>1, <2>2, <2>3, <2>4, FinishRefines, OtherRefines DEF Next
<1> QED
  BY <1>1, <1>2, SpecInv, SpecFresh, PTL DEF Spec, ImplementsAnswers, Answers!Spec
============================================================================
