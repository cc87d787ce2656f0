------------------------- MODULE ConnectionsProofs --------------------------
(***************************************************************************)
(* What the connections, the layers, their settings and their panels keep, *)
(* for every set of tables, columns, schemas and connections, every state  *)
(* an earlier page may have left (StoredAlike) and any number of gestures. *)
(*                                                                         *)
(* A behaviour is in one place and the store is shared, so the invariant   *)
(* is that of the store and that of the place: StoreSound, EditorInv,      *)
(* PageInv and FormsInv. Each part below has the invariant, one lemma for  *)
(* each operation or group of steps, and at its end the lemma of all its   *)
(* steps.                                                                  *)
(***************************************************************************)
EXTENDS Connections, NaturalsInduction, WellFoundedInduction, TLAPS

(* A set that holds 0 and with every number the next one holds them all.   *)
LEMMA CountUp ==
  ASSUME NEW n \in Nat, NEW T \in SUBSET (0..n), 0 \in T,
         \A m \in 0..n : m + 1 \in 0..n /\ m \in T => m + 1 \in T
  PROVE  T = 0..n
<1> DEFINE Rest == (0..n) \ T
<1>1. SUFFICES ASSUME Rest # {} PROVE FALSE
  OBVIOUS
<1>2. Rest \subseteq Nat
  OBVIOUS
<1> HIDE DEF Rest
<1>3. PICK x \in Rest : \A y \in Rest : ~(<<y, x>> \in OpToRel(<, Nat))
  BY <1>1, <1>2, NatLessThanWellFounded, WFMin
<1>4. \A y \in Rest : ~(y < x)
  BY <1>2, <1>3 DEF OpToRel
<1> QED
  BY <1>4 DEF Rest

-----------------------------------------------------------------------------
(***************************************************************************)
(* Lists of entries with identities.                                       *)
(*                                                                         *)
(* A selection of a list, like everything the store computes along a list, *)
(* is a recursive function: that it exists, and what it keeps, is proved   *)
(* by going up its length (CountUp).                                       *)
(***************************************************************************)
LEMMA ListBasics ==
  ASSUME NEW l, ListFits(l)
  PROVE  /\ Len(l) \in Nat /\ DOMAIN l = 1..Len(l)
         /\ \A i \in 1..Len(l) : l[i] \in Range(l)
         /\ \A x \in Range(l) : \E i \in 1..Len(l) : x = l[i]
         /\ l = << >> <=> Range(l) = {}
         /\ l # << >> => 1 \in DOMAIN l
  BY DEF ListFits, Range

(* Two entries with one identity are one.                                  *)
LEMMA OneOfEach ==
  ASSUME NEW l, ListFits(l), NEW x \in Range(l), NEW y \in Range(l), x.id = y.id
  PROVE  x = y
  BY DEF ListFits, Range, Unique

(* The identities of a list are those of its entries.                      *)
LEMMA IdsOf ==
  ASSUME NEW l, NEW id
  PROVE  Has(l, id) <=> \E x \in Range(l) : x.id = id
  BY DEF Has, Ids, Range

(* The entry of an identity is in the list, and is that of the identity.   *)
LEMMA GetOf ==
  ASSUME NEW l, NEW id, Has(l, id)
  PROVE  Get(l, id) \in Range(l) /\ Get(l, id).id = id
<1> DEFINE i == CHOOSE i \in DOMAIN l : l[i].id = id
<1>1. i \in DOMAIN l /\ l[i].id = id
  BY DEF Has, Ids
<1> QED
  BY <1>1 DEF Get, Range

(* One more entry, with an identity of its own.                            *)
LEMMA AppendFits ==
  ASSUME NEW l, ListFits(l), NEW e, \A x \in Range(l) : x.id # e.id
  PROVE  ListFits(Append(l, e)) /\ Range(Append(l, e)) = Range(l) \cup {e}
<1> DEFINE a == Append(l, e)
           n == Len(l)
<1>1. n \in Nat /\ DOMAIN l = 1..n /\ l \in Seq(Range(l))
  BY DEF ListFits
<1>2. l \in Seq(Range(l) \cup {e})
  BY <1>1
<1>3. /\ a \in Seq(Range(l) \cup {e}) /\ Len(a) = n + 1 /\ DOMAIN a = 1..(n + 1)
      /\ \A i \in 1..n : a[i] = l[i]
      /\ a[n + 1] = e
  BY <1>1, <1>2
<1> HIDE DEF a, n
<1>4. Range(a) = Range(l) \cup {e}
  <2>1. ASSUME NEW x \in Range(a) PROVE x \in Range(l) \cup {e}
    BY <1>1, <1>3, <2>1 DEF Range
  <2>2. ASSUME NEW x \in Range(l) PROVE x \in Range(a)
    <3>1. PICK i \in 1..n : x = l[i]
      BY <1>1, <2>2 DEF Range
    <3>2. i \in DOMAIN a /\ a[i] = x
      BY <1>1, <1>3, <3>1
    <3> QED
      BY <3>2 DEF Range
  <2>3. e \in Range(a)
    BY <1>1, <1>3 DEF Range
  <2> QED
    BY <2>1, <2>2, <2>3
<1>5. ASSUME NEW i \in DOMAIN a, NEW j \in DOMAIN a, a[i].id = a[j].id PROVE i = j
  <2>1. \A k \in 1..n : l[k] \in Range(l)
    BY <1>1 DEF Range
  <2>2. CASE i = n + 1
    BY <1>1, <1>3, <1>5, <2>1, <2>2
  <2>3. CASE j = n + 1
    BY <1>1, <1>3, <1>5, <2>1, <2>3
  <2>4. CASE i \in 1..n /\ j \in 1..n
    BY <1>1, <1>3, <1>5, <2>4 DEF ListFits, Unique
  <2> QED
    BY <1>1, <1>3, <2>2, <2>3, <2>4
<1>6. a \in Seq(Range(a)) /\ Unique(a)
  BY <1>3, <1>4, <1>5 DEF Unique
<1> QED
  BY <1>4, <1>6 DEF ListFits, a

(* One list after another.                                                 *)
LEMMA ConcatFits ==
  ASSUME NEW l, ListFits(l), NEW m, ListFits(m),
         \A x \in Range(l), y \in Range(m) : x.id # y.id
  PROVE  ListFits(l \o m) /\ Range(l \o m) = Range(l) \cup Range(m)
<1> DEFINE a == l \o m
           n == Len(l)
           k == Len(m)
<1>1. /\ n \in Nat /\ DOMAIN l = 1..n /\ l \in Seq(Range(l))
      /\ k \in Nat /\ DOMAIN m = 1..k /\ m \in Seq(Range(m))
  BY DEF ListFits
<1>2. l \in Seq(Range(l) \cup Range(m)) /\ m \in Seq(Range(l) \cup Range(m))
  BY <1>1
<1>3. /\ a \in Seq(Range(l) \cup Range(m)) /\ Len(a) = n + k /\ DOMAIN a = 1..(n + k)
      /\ \A i \in 1..n : a[i] = l[i]
      /\ \A i \in 1..k : a[n + i] = m[i]
  BY <1>1, <1>2
<1> HIDE DEF a, n, k
<1>4. \A i \in DOMAIN a : i \in 1..n \/ \E j \in 1..k : i = n + j
  <2>1. ASSUME NEW i \in DOMAIN a, i \notin 1..n PROVE \E j \in 1..k : i = n + j
    <3>1. i - n \in 1..k /\ i = n + (i - n)
      BY <1>1, <1>3, <2>1
    <3> QED
      BY <3>1
  <2> QED
    BY <2>1
<1>5. Range(a) = Range(l) \cup Range(m)
  <2>1. ASSUME NEW x \in Range(a) PROVE x \in Range(l) \cup Range(m)
    <3>1. PICK i \in DOMAIN a : x = a[i]
      BY <2>1 DEF Range
    <3>2. i \in DOMAIN a => a[i] \in Range(l) \cup Range(m)
      BY <1>3
    <3> QED
      BY <3>1, <3>2
  <2>2. ASSUME NEW x \in Range(l) PROVE x \in Range(a)
    <3>1. PICK i \in 1..n : x = l[i]
      BY <1>1, <2>2 DEF Range
    <3>2. i \in DOMAIN a /\ a[i] = x
      BY <1>1, <1>3, <3>1
    <3> QED
      BY <3>2 DEF Range
  <2>3. ASSUME NEW x \in Range(m) PROVE x \in Range(a)
    <3>1. PICK i \in 1..k : x = m[i]
      BY <1>1, <2>3 DEF Range
    <3>2. n + i \in DOMAIN a /\ a[n + i] = x
      BY <1>1, <1>3, <3>1
    <3> QED
      BY <3>2 DEF Range
  <2> QED
    BY <2>1, <2>2, <2>3
<1>6. ASSUME NEW i \in DOMAIN a, NEW j \in DOMAIN a, a[i].id = a[j].id PROVE i = j
  <2>1. (\A h \in 1..n : l[h] \in Range(l)) /\ (\A h \in 1..k : m[h] \in Range(m))
    BY <1>1 DEF Range
  <2>2. CASE i \in 1..n /\ j \in 1..n
    BY <1>1, <1>3, <1>6, <2>2 DEF ListFits, Unique
  <2>3. ASSUME NEW g \in 1..k, i = n + g, j \in 1..n PROVE FALSE
    BY <1>1, <1>3, <1>6, <2>1, <2>3
  <2>4. ASSUME NEW g \in 1..k, j = n + g, i \in 1..n PROVE FALSE
    BY <1>1, <1>3, <1>6, <2>1, <2>4
  <2>5. ASSUME NEW g \in 1..k, NEW h \in 1..k, i = n + g, j = n + h PROVE i = j
    <3>1. m[g].id = m[h].id
      BY <1>3, <1>6, <2>5
    <3> QED
      BY <1>1, <2>5, <3>1 DEF ListFits, Unique
  <2> QED
    BY <1>4, <2>2, <2>3, <2>4, <2>5
<1>7. a \in Seq(Range(a)) /\ Unique(a)
  BY <1>3, <1>5, <1>6 DEF Unique
<1> QED
  BY <1>5, <1>7 DEF ListFits, a

(* Lists of one entry and of none.                                         *)
LEMMA SingleFits ==
  ASSUME NEW e
  PROVE  ListFits(<<e>>) /\ Range(<<e>>) = {e}
<1>1. DOMAIN <<e>> = {1} /\ <<e>>[1] = e
  OBVIOUS
<1>2. Range(<<e>>) = {e}
  BY <1>1 DEF Range
<1>3. <<e>> \in Seq({e})
  OBVIOUS
<1> QED
  BY <1>1, <1>2, <1>3 DEF ListFits, Unique

(* A list without entries has no identity twice.                           *)
LEMMA EmptyFits == ListFits(<< >>) /\ Range(<< >>) = {}
<1>1. DOMAIN << >> = {} /\ << >> \in Seq({})
  OBVIOUS
<1>2. Range(<< >>) = {}
  BY <1>1 DEF Range
<1> QED
  BY <1>1, <1>2 DEF ListFits, Unique

(* The first of two lists is part of them.                                 *)
LEMMA ConcatHas ==
  ASSUME NEW l, ListFits(l), NEW m, ListFits(m)
  PROVE  Range(l) \subseteq Range(l \o m)
<1> DEFINE a == l \o m
           n == Len(l)
           k == Len(m)
           S == Range(l) \cup Range(m)
<1>1. /\ n \in Nat /\ DOMAIN l = 1..n /\ k \in Nat /\ l \in Seq(S) /\ m \in Seq(S)
  BY DEF ListFits
<1> HIDE DEF S
<1>2. /\ DOMAIN a = 1..(n + k)
      /\ \A i \in 1..n : a[i] = l[i]
  BY <1>1
<1> HIDE DEF a, n, k
<1>3. \A i \in DOMAIN l : i \in DOMAIN a /\ a[i] = l[i]
  BY <1>1, <1>2
<1> QED
  BY <1>3 DEF Range, a

(* A list whose entries change and keep their identities.                  *)
Renewed(m, l) == m = [i \in DOMAIN l |-> m[i]] /\ \A i \in DOMAIN l : m[i].id = l[i].id

(* Entries that change and keep their identities leave a list that fits.   *)
LEMMA ChangeFits ==
  ASSUME NEW l, ListFits(l), NEW m, Renewed(m, l)
  PROVE  /\ ListFits(m) /\ DOMAIN m = DOMAIN l /\ Len(m) = Len(l)
         /\ \A x \in Range(m) : \E i \in DOMAIN l : x = m[i]
         /\ \A i \in DOMAIN l : m[i] \in Range(m) /\ l[i] \in Range(l)
         /\ Ids(m) = Ids(l)
<1> DEFINE n == Len(l)
<1>1. n \in Nat /\ DOMAIN l = 1..n
  BY DEF ListFits
<1> HIDE DEF n
<1>2. /\ DOMAIN m = 1..n /\ m = [i \in 1..n |-> m[i]]
      /\ \A i \in 1..n : m[i].id = l[i].id
  BY <1>1 DEF Renewed
<1>3. m \in Seq(Range(m)) /\ Len(m) = n
  BY <1>1, <1>2 DEF Range
<1>4. Unique(m)
  BY <1>1, <1>2 DEF ListFits, Unique
<1>5. Ids(m) = Ids(l)
  BY <1>1, <1>2 DEF Ids
<1> QED
  BY <1>1, <1>2, <1>3, <1>4, <1>5 DEF ListFits, Range, n

(* There is a function that goes through the list, for every length of it. *)
KeepNext(before, e, S) == IF e \in S THEN Append(before, e) ELSE before
KeptUpTo(n, l, S) ==
  \E g : g = [i \in 0..n |-> IF i = 0 THEN << >> ELSE KeepNext(g[i - 1], l[i], S)]

(* There is such a function, and it is the one CHOOSE takes.               *)
LEMMA KeptExist ==
  ASSUME NEW l, NEW S, NEW n \in Nat
  PROVE  KeptUpTo(n, l, S)
<1> DEFINE Good(m, g) == g = [i \in 0..m |-> IF i = 0 THEN << >> ELSE KeepNext(g[i - 1], l[i], S)]
           T == {m \in 0..n : \E g : Good(m, g)}
<1>1. 0 \in T
  <2> DEFINE g == [i \in 0..0 |-> << >>]
  <2>1. \A i \in 0..0 : i = 0
    OBVIOUS
  <2>2. g = [i \in 0..0 |-> IF i = 0 THEN << >> ELSE KeepNext(g[i - 1], l[i], S)]
    BY <2>1 DEF KeepNext
  <2>3. \E k : Good(0, k)
    BY <2>2
  <2> QED
    BY <2>3
<1>2. ASSUME NEW m \in 0..n, m + 1 \in 0..n, m \in T PROVE m + 1 \in T
  <2>1. PICK g : Good(m, g)
    BY <1>2
  <2> DEFINE h == [i \in 0..(m + 1) |-> IF i = m + 1 THEN KeepNext(g[m], l[m + 1], S) ELSE g[i]]
  <2>2. \A i \in 0..m : g[i] = IF i = 0 THEN << >> ELSE KeepNext(g[i - 1], l[i], S)
    BY <2>1
  <2>3. \A i \in 0..(m + 1) : h[i] = IF i = 0 THEN << >> ELSE KeepNext(h[i - 1], l[i], S)
    BY <2>2 DEF KeepNext
  <2>4. Good(m + 1, h)
    <3>1. h = [i \in 0..(m + 1) |-> h[i]]
      OBVIOUS
    <3> HIDE DEF h
    <3> QED
      BY <2>3, <3>1
  <2> QED
    BY <1>2, <2>4
<1>3. T = 0..n
  <2> HIDE DEF T
  <2>1. T \in SUBSET (0..n)
    BY DEF T
  <2> QED
    BY <1>1, <1>2, <2>1, CountUp
<1>4. n \in T
  <2> HIDE DEF T
  <2> QED
    BY <1>3
<1> QED
  BY <1>4 DEF KeptUpTo

(* What goes through: a list of those entries, in the order they had.      *)
LEMMA OnlyFits ==
  ASSUME NEW l, ListFits(l), NEW S
  PROVE  ListFits(Only(l, S)) /\ Range(Only(l, S)) = Range(l) \cap S
<1> DEFINE kept[i \in 0..Len(l)] ==
             IF i = 0 THEN << >>
             ELSE IF l[i] \in S THEN Append(kept[i - 1], l[i]) ELSE kept[i - 1]
           size == Len(l)
<1>1. Only(l, S) = kept[size]
  BY DEF Only
<1>2. size \in Nat /\ DOMAIN l = 1..size /\ \A i \in 1..size : l[i] \in Range(l)
  BY ListBasics
<1>3. kept = [i \in 0..size |-> IF i = 0 THEN << >> ELSE KeepNext(kept[i - 1], l[i], S)]
  <2>1. kept = CHOOSE g : g = [i \in 0..size |-> IF i = 0 THEN << >> ELSE KeepNext(g[i - 1], l[i], S)]
    BY DEF kept, KeepNext
  <2> HIDE DEF kept, size
  <2>2. size \in Nat
    BY <1>2
  <2>3. \E g : g = [i \in 0..size |-> IF i = 0 THEN << >> ELSE KeepNext(g[i - 1], l[i], S)]
    BY <2>2, KeptExist DEF KeptUpTo
  <2> QED
    BY <2>1, <2>3, Zenon
<1> HIDE DEF kept, size
<1>4. /\ kept[0] = << >>
      /\ \A m \in 0..size : m + 1 \in 0..size =>
           kept[m + 1] = IF l[m + 1] \in S THEN Append(kept[m], l[m + 1]) ELSE kept[m]
  <2>1. \A i \in 0..size : kept[i] = IF i = 0 THEN << >> ELSE KeepNext(kept[i - 1], l[i], S)
    BY <1>3
  <2>2. ASSUME NEW m \in 0..size, m + 1 \in 0..size
        PROVE  kept[m + 1] = IF l[m + 1] \in S THEN Append(kept[m], l[m + 1]) ELSE kept[m]
    <3>1. m + 1 # 0 /\ (m + 1) - 1 = m
      BY <1>2, <2>2
    <3>2. kept[m + 1] = KeepNext(kept[m], l[m + 1], S)
      BY <2>1, <2>2, <3>1
    <3> QED
      BY <3>2 DEF KeepNext
  <2> QED
    BY <1>2, <2>1, <2>2 DEF KeepNext
<1> DEFINE Part(m) == {l[i] : i \in 1..m} \cap S
           Good(m) == ListFits(kept[m]) /\ Range(kept[m]) = Part(m)
           T == {m \in 0..size : Good(m)}
<1>5. 0 \in T
  <2>1. Part(0) = {}
    OBVIOUS
  <2> QED
    BY <1>2, <1>4, <2>1, EmptyFits
<1>6. ASSUME NEW m \in 0..size, m + 1 \in 0..size, m \in T PROVE m + 1 \in T
  <2> DEFINE e == l[m + 1]
  <2>1. Good(m) /\ m + 1 \in 1..size /\ e \in Range(l)
    BY <1>2, <1>6
  <2>2. Part(m + 1) = Part(m) \cup ({e} \cap S)
    <3>1. \A i \in 1..(m + 1) : i \in 1..m \/ i = m + 1
      BY <1>2, <1>6
    <3>2. \A i \in 1..m : i \in 1..(m + 1)
      BY <1>2, <1>6
    <3>3. m + 1 \in 1..(m + 1)
      BY <1>2, <1>6
    <3> QED
      BY <3>1, <3>2, <3>3
  <2>3. \A x \in Part(m) : x.id # e.id
    <3>1. ASSUME NEW i \in 1..m, l[i].id = e.id PROVE FALSE
      <4>1. i \in 1..size /\ i # m + 1
        BY <1>2, <1>6
      <4> QED
        BY <1>2, <2>1, <3>1, <4>1 DEF ListFits, Unique
    <3> QED
      BY <3>1
  <2> HIDE DEF e, Part
  <2>4. CASE e \in S
    <3>1. kept[m + 1] = Append(kept[m], e)
      BY <1>4, <1>6, <2>4 DEF e
    <3>2. ListFits(Append(kept[m], e)) /\ Range(Append(kept[m], e)) = Range(kept[m]) \cup {e}
      BY <2>1, <2>3, AppendFits
    <3> QED
      BY <1>6, <2>1, <2>2, <2>4, <3>1, <3>2
  <2>5. CASE e \notin S
    <3>1. kept[m + 1] = kept[m]
      BY <1>4, <1>6, <2>5 DEF e
    <3> QED
      BY <1>6, <2>1, <2>2, <2>5, <3>1
  <2> QED
    BY <2>4, <2>5
<1>7. T = 0..size
  <2> HIDE DEF T
  <2>1. T \in SUBSET (0..size)
    BY DEF T
  <2> QED
    BY <1>2, <1>5, <1>6, <2>1, CountUp
<1>8. ListFits(kept[size]) /\ Range(kept[size]) = Part(size)
  <2>1. size \in 0..size
    BY <1>2
  <2>2. size \in T
    <3> HIDE DEF T
    <3> QED
      BY <1>7, <2>1
  <2> QED
    BY <2>2
<1>9. Part(size) = Range(l) \cap S
  BY <1>2 DEF Range
<1> QED
  BY <1>1, <1>8, <1>9

-----------------------------------------------------------------------------
(***************************************************************************)
(* The store (StoreSound).                                                 *)
(*                                                                         *)
(* The properties are inductive as they stand, and the proof has a lemma   *)
(* for each operation. What it goes along is what an operation leaves:     *)
(* connections, sources, layers and views are each changed by few of them, *)
(* and a source is taken by the last of its layers.                        *)
(***************************************************************************)
StoreSound(s) == StateFits(s, {}) /\ ReferencesStand(s) /\ SelectionStands(s)

(* What is kept of a part that a step leaves alone.                        *)
LEMMA ConnectionsLeft ==
  ASSUME NEW s, NEW t, s.made \in Nat, t.made \in Nat, s.made <= t.made,
         ConnectionsFit(s), t.connections = s.connections
  PROVE  ConnectionsFit(t)
  BY DEF ConnectionsFit

(* Sources that a step leaves alone still fit.                             *)
LEMMA SourcesLeft ==
  ASSUME NEW s, NEW t, s.made \in Nat, t.made \in Nat, s.made <= t.made,
         SourcesFit(s), t.mapSources = s.mapSources
  PROVE  SourcesFit(t)
  BY DEF SourcesFit

(* Layers that a step leaves alone still fit.                              *)
LEMMA LayersLeft ==
  ASSUME NEW s, NEW t, NEW u, s.made \in Nat, t.made \in Nat, s.made <= t.made,
         LayersFit(s, u), t.mapLayers = s.mapLayers
  PROVE  LayersFit(t, u)
<1>1. \A i \in 1..s.made : i \in 1..t.made
  OBVIOUS
<1> QED
  BY <1>1 DEF LayersFit

(* Views that a step leaves alone still fit.                               *)
LEMMA ViewsLeft ==
  ASSUME NEW s, NEW t, s.made \in Nat, t.made \in Nat, s.made <= t.made,
         ViewsFit(s), t.views = s.views
  PROVE  ViewsFit(t)
  BY DEF ViewsFit

(* What refers to what is as it was when the three lists are.              *)
LEMMA ReferencesLeft ==
  ASSUME NEW s, NEW t, ReferencesStand(s), t.mapSources = s.mapSources,
         t.mapLayers = s.mapLayers, t.views = s.views
  PROVE  ReferencesStand(t)
  BY DEF ReferencesStand, LayersHaveSources, SourcesHaveLayers, TypesFollowColumns, ViewsAreFollowed

(* A step that leaves what is drawn.                                       *)
LEMMA DrawnLeft ==
  ASSUME NEW s, NEW t, StoreSound(s), DOMAIN t = DOMAIN s, t.made \in Nat, s.made <= t.made,
         t.mapSources = s.mapSources, t.mapLayers = s.mapLayers, t.views = s.views,
         ConnectionsFit(t), SelectionStands(t)
  PROVE  StoreSound(t)
<1>1. s.made \in Nat
  BY DEF StoreSound, StateFits
<1> QED
  BY <1>1, SourcesLeft, LayersLeft, ViewsLeft, ReferencesLeft DEF StoreSound, StateFits

-----------------------------------------------------------------------------
(* Connections.                                                            *)
LEMMA SelectConnectionKeeps ==
  ASSUME NEW s, StoreSound(s), NEW id, Has(s.connections, id)
  PROVE  StoreSound(SelectConnection(s, id))
<1> DEFINE t == SelectConnection(s, id)
<1>1. /\ DOMAIN t = DOMAIN s /\ t.made = s.made /\ t.selected = id
      /\ t.mapSources = s.mapSources /\ t.mapLayers = s.mapLayers /\ t.views = s.views
      /\ t.connections = s.connections
  BY DEF StoreSound, StateFits, EmptyStore, SelectConnection
<1>2. s.made \in Nat /\ ConnectionsFit(s)
  BY DEF StoreSound, StateFits
<1>3. s.connections # << >>
  BY DEF Has, Ids
<1> HIDE DEF t
<1>4. SelectionStands(t)
  BY <1>1, <1>3 DEF SelectionStands
<1>5. s.made <= t.made /\ t.made \in Nat
  BY <1>1, <1>2
<1>6. ConnectionsFit(t)
  BY <1>1, <1>2, <1>5, ConnectionsLeft
<1>7. StoreSound(t)
  BY <1>1, <1>4, <1>5, <1>6, DrawnLeft
<1> QED
  BY <1>7 DEF t

(* What is remembered of a connection is no part of what must stand.       *)
LEMMA RememberedKeeps ==
  ASSUME NEW s, StoreSound(s), NEW id, NEW x
  PROVE  StoreSound(SetSelectedSchemaNames(s, id, x)) /\ StoreSound(SetSelectedTable(s, id, x))
<1>1. s.made \in Nat /\ ConnectionsFit(s) /\ SelectionStands(s)
  BY DEF StoreSound, StateFits
<1>2. ASSUME NEW t, DOMAIN t = DOMAIN s, t.made = s.made, t.selected = s.selected,
             t.mapSources = s.mapSources, t.mapLayers = s.mapLayers, t.views = s.views,
             t.connections = s.connections
      PROVE  StoreSound(t)
  <2>1. SelectionStands(t)
    BY <1>1, <1>2 DEF SelectionStands
  <2> QED
    BY <1>1, <1>2, <2>1, ConnectionsLeft, DrawnLeft
<1> DEFINE n == SetSelectedSchemaNames(s, id, x)
<1>3. /\ DOMAIN n = DOMAIN s /\ n.made = s.made /\ n.selected = s.selected
      /\ n.mapSources = s.mapSources /\ n.mapLayers = s.mapLayers /\ n.views = s.views
      /\ n.connections = s.connections
  BY DEF StoreSound, StateFits, EmptyStore, SetSelectedSchemaNames
<1> DEFINE t == SetSelectedTable(s, id, x)
<1>4. /\ DOMAIN t = DOMAIN s /\ t.made = s.made /\ t.selected = s.selected
      /\ t.mapSources = s.mapSources /\ t.mapLayers = s.mapLayers /\ t.views = s.views
      /\ t.connections = s.connections
  BY DEF StoreSound, StateFits, EmptyStore, SetSelectedTable
<1> HIDE DEF n, t
<1>5. StoreSound(n) /\ StoreSound(t)
  BY <1>2, <1>3, <1>4
<1> QED
  BY <1>5 DEF n, t

(* A connection that changes keeps its identity.                           *)
LEMMA ConnectionsChanged ==
  ASSUME NEW s, StoreSound(s), NEW m,
         m = [i \in DOMAIN s.connections |-> m[i]],
         \A i \in DOMAIN s.connections : m[i].id = s.connections[i].id /\ m[i] \in Connection
  PROVE  StoreSound([s EXCEPT !.connections = m])
<1> DEFINE t == [s EXCEPT !.connections = m]
<1>1. /\ DOMAIN t = DOMAIN s /\ t.made = s.made /\ t.selected = s.selected
      /\ t.mapSources = s.mapSources /\ t.mapLayers = s.mapLayers /\ t.views = s.views
      /\ t.connections = m
  BY DEF StoreSound, StateFits, EmptyStore
<1>2. s.made \in Nat /\ ConnectionsFit(s) /\ SelectionStands(s)
  BY DEF StoreSound, StateFits
<1> HIDE DEF t
<1>3. /\ ListFits(m) /\ Ids(m) = Ids(s.connections) /\ Len(m) = Len(s.connections)
      /\ \A x \in Range(m) : \E i \in DOMAIN s.connections : x = m[i]
      /\ \A i \in DOMAIN s.connections : s.connections[i] \in Range(s.connections)
  <2> DEFINE l == s.connections
  <2>1. ListFits(l) /\ m = [i \in DOMAIN l |-> m[i]] /\ \A i \in DOMAIN l : m[i].id = l[i].id
    BY <1>2 DEF ConnectionsFit
  <2> HIDE DEF l
  <2>2. /\ ListFits(m) /\ Ids(m) = Ids(l) /\ Len(m) = Len(l)
        /\ \A x \in Range(m) : \E i \in DOMAIN l : x = m[i]
        /\ \A i \in DOMAIN l : l[i] \in Range(l)
    BY <2>1, ChangeFits DEF Renewed
  <2> QED
    BY <2>2 DEF l
<1>4. ConnectionsFit(t)
  <2>1. ASSUME NEW x \in Range(m) PROVE x \in Connection /\ x.id \in 1..s.made \cup ServerIds
    <3>1. PICK i \in DOMAIN s.connections : x = m[i]
      BY <1>3, <2>1
    <3>2. s.connections[i].id \in 1..s.made \cup ServerIds
      BY <1>2, <1>3 DEF ConnectionsFit
    <3> QED
      BY <3>1, <3>2
  <2> QED
    BY <1>1, <1>3, <2>1 DEF ConnectionsFit
<1>5. m = << >> <=> s.connections = << >>
  BY <1>2, <1>3 DEF ConnectionsFit, ListFits
<1>6. SelectionStands(t)
  BY <1>1, <1>2, <1>3, <1>5 DEF SelectionStands, Has
<1>7. s.made <= t.made /\ t.made \in Nat
  BY <1>1, <1>2
<1>8. StoreSound(t)
  BY <1>1, <1>4, <1>6, <1>7, DrawnLeft
<1> QED
  BY <1>8 DEF t

(* What a gesture or a test tells of a connection.                         *)
LEMMA ToggleConnectionActiveKeeps ==
  ASSUME NEW s, StoreSound(s), NEW id
  PROVE  StoreSound(ToggleConnectionActive(s, id))
<1> DEFINE l == s.connections
           Told(c) == [c EXCEPT !.active = ~@]
           m == [i \in DOMAIN l |-> IF l[i].id = id THEN Told(l[i]) ELSE l[i]]
<1>1. \A i \in DOMAIN l : l[i] \in Connection
  BY DEF StoreSound, StateFits, ConnectionsFit, Range
<1>2. \A c \in Connection : Told(c).id = c.id /\ Told(c) \in Connection
  BY DEF Connection
<1>3. ToggleConnectionActive(s, id) = [s EXCEPT !.connections = m]
  BY DEF ToggleConnectionActive, OfConnection, Mapped
<1> HIDE DEF Told
<1>4. \A i \in DOMAIN l : m[i].id = l[i].id /\ m[i] \in Connection
  BY <1>1, <1>2
<1>5. m = [i \in DOMAIN l |-> m[i]]
  OBVIOUS
<1> HIDE DEF m
<1>6. StoreSound([s EXCEPT !.connections = m])
  BY <1>4, <1>5, ConnectionsChanged
<1> QED
  BY <1>3, <1>6

(* A test that starts is told of its connection alone.                     *)
LEMMA SetConnectionTestPendingKeeps ==
  ASSUME NEW s, StoreSound(s), NEW id
  PROVE  StoreSound(SetConnectionTestPending(s, id))
<1> DEFINE l == s.connections
           Told(c) == [c EXCEPT !.test = "testing"]
           m == [i \in DOMAIN l |-> IF l[i].id = id THEN Told(l[i]) ELSE l[i]]
<1>1. \A i \in DOMAIN l : l[i] \in Connection
  BY DEF StoreSound, StateFits, ConnectionsFit, Range
<1>2. \A c \in Connection : Told(c).id = c.id /\ Told(c) \in Connection
  BY DEF Connection
<1>3. SetConnectionTestPending(s, id) = [s EXCEPT !.connections = m]
  BY DEF SetConnectionTestPending, OfConnection, Mapped
<1> HIDE DEF Told
<1>4. \A i \in DOMAIN l : m[i].id = l[i].id /\ m[i] \in Connection
  BY <1>1, <1>2
<1>5. m = [i \in DOMAIN l |-> m[i]]
  OBVIOUS
<1> HIDE DEF m
<1>6. StoreSound([s EXCEPT !.connections = m])
  BY <1>4, <1>5, ConnectionsChanged
<1> QED
  BY <1>3, <1>6

(* So is one that succeeds.                                                *)
LEMMA SetConnectionTestSuccessKeeps ==
  ASSUME NEW s, StoreSound(s), NEW id
  PROVE  StoreSound(SetConnectionTestSuccess(s, id))
<1> DEFINE l == s.connections
           Told(c) == [c EXCEPT !.test = "success", !.active = TRUE]
           m == [i \in DOMAIN l |-> IF l[i].id = id THEN Told(l[i]) ELSE l[i]]
<1>1. \A i \in DOMAIN l : l[i] \in Connection
  BY DEF StoreSound, StateFits, ConnectionsFit, Range
<1>2. \A c \in Connection : Told(c).id = c.id /\ Told(c) \in Connection
  BY DEF Connection
<1>3. SetConnectionTestSuccess(s, id) = [s EXCEPT !.connections = m]
  BY DEF SetConnectionTestSuccess, OfConnection, Mapped
<1> HIDE DEF Told
<1>4. \A i \in DOMAIN l : m[i].id = l[i].id /\ m[i] \in Connection
  BY <1>1, <1>2
<1>5. m = [i \in DOMAIN l |-> m[i]]
  OBVIOUS
<1> HIDE DEF m
<1>6. StoreSound([s EXCEPT !.connections = m])
  BY <1>4, <1>5, ConnectionsChanged
<1> QED
  BY <1>3, <1>6

(* So is one that fails.                                                   *)
LEMMA SetConnectionTestErrorKeeps ==
  ASSUME NEW s, StoreSound(s), NEW id
  PROVE  StoreSound(SetConnectionTestError(s, id))
<1> DEFINE l == s.connections
           Told(c) == [c EXCEPT !.test = "error", !.active = FALSE]
           m == [i \in DOMAIN l |-> IF l[i].id = id THEN Told(l[i]) ELSE l[i]]
<1>1. \A i \in DOMAIN l : l[i] \in Connection
  BY DEF StoreSound, StateFits, ConnectionsFit, Range
<1>2. \A c \in Connection : Told(c).id = c.id /\ Told(c) \in Connection
  BY DEF Connection
<1>3. SetConnectionTestError(s, id) = [s EXCEPT !.connections = m]
  BY DEF SetConnectionTestError, OfConnection, Mapped
<1> HIDE DEF Told
<1>4. \A i \in DOMAIN l : m[i].id = l[i].id /\ m[i] \in Connection
  BY <1>1, <1>2
<1>5. m = [i \in DOMAIN l |-> m[i]]
  OBVIOUS
<1> HIDE DEF m
<1>6. StoreSound([s EXCEPT !.connections = m])
  BY <1>4, <1>5, ConnectionsChanged
<1> QED
  BY <1>3, <1>6

(* A connection is added with an identity that was not given before.       *)
LEMMA AddConnectionKeeps ==
  ASSUME NEW s, StoreSound(s), NEW b \in BOOLEAN
  PROVE  /\ StoreSound(AddConnection(s, b))
         /\ AddConnection(s, b).selected = s.made + 1
         /\ Range(AddConnection(s, b).connections) =
              {[id |-> s.made + 1, server |-> FALSE, active |-> TRUE, secret |-> TRUE,
                bundled |-> b, test |-> "idle"]} \cup Range(s.connections)
<1> DEFINE c == [id |-> s.made + 1, server |-> FALSE, active |-> TRUE, secret |-> TRUE,
                 bundled |-> b, test |-> "idle"]
           t == AddConnection(s, b)
<1>1. s.made \in Nat /\ ConnectionsFit(s)
  BY DEF StoreSound, StateFits
<1>2. /\ DOMAIN t = DOMAIN s /\ t.made = s.made + 1 /\ t.selected = s.made + 1
      /\ t.mapSources = s.mapSources /\ t.mapLayers = s.mapLayers /\ t.views = s.views
      /\ t.connections = <<c>> \o s.connections
  BY DEF StoreSound, StateFits, EmptyStore, AddConnection
<1>3. c \in Connection /\ c.id = s.made + 1
  BY <1>1 DEF Connection
<1> HIDE DEF c, t
<1>4. \A x \in Range(s.connections) : c.id # x.id
  BY <1>1, <1>3, StoreConstants DEF ConnectionsFit
<1>5. ListFits(<<c>>) /\ Range(<<c>>) = {c} /\ ListFits(s.connections)
  BY <1>1, SingleFits DEF ConnectionsFit
<1>6. ListFits(t.connections) /\ Range(t.connections) = {c} \cup Range(s.connections)
  BY <1>2, <1>4, <1>5, ConcatFits
<1>7. ConnectionsFit(t)
  BY <1>1, <1>2, <1>3, <1>6 DEF ConnectionsFit
<1>8. Has(t.connections, t.selected)
  BY <1>2, <1>3, <1>6, IdsOf
<1>9. SelectionStands(t)
  BY <1>6, <1>8, EmptyFits DEF SelectionStands
<1>10. s.made <= t.made /\ t.made \in Nat
  BY <1>1, <1>2
<1>11. StoreSound(t)
  BY <1>2, <1>7, <1>9, <1>10, DrawnLeft
<1> QED
  BY <1>2, <1>6, <1>11 DEF c, t

(* The first one is selected when the one that was is gone.                *)
LEMMA FallsToFirst ==
  ASSUME NEW t, ListFits(t.connections), NEW id,
         t.selected = IF Has(t.connections, id) THEN id ELSE First(t.connections)
  PROVE  SelectionStands(t)
<1> DEFINE l == t.connections
<1>1. l # << >> => l[1] \in Range(l) /\ First(l) = l[1].id
  BY ListBasics DEF First, Range
<1>2. l = << >> => First(l) = None /\ ~Has(l, id)
  BY DEF First, Has, Ids
<1>3. l # << >> => Has(l, First(l))
  BY <1>1, IdsOf
<1> HIDE DEF l
<1> QED
  BY <1>2, <1>3 DEF SelectionStands, l

(* The server's connections come first, then the page's own.               *)
LEMMA UpsertServerConnectionsKeeps ==
  ASSUME NEW s, StoreSound(s),
         NEW ids \in {<< >>} \cup {<<i>> : i \in ServerIds}
  PROVE  /\ StoreSound(UpsertServerConnections(s, ids))
         /\ Ids(UpsertServerConnections(s, ids).connections) \subseteq
              Ids(s.connections) \cup ServerIds
<1> DEFINE l == s.connections
           t == UpsertServerConnections(s, ids)
           Managed(i) == IF Has(l, i) THEN [Get(l, i) EXCEPT !.server = TRUE, !.secret = FALSE]
                        ELSE [id |-> i, server |-> TRUE, active |-> TRUE, secret |-> FALSE,
                              bundled |-> FALSE, test |-> "idle"]
           front == [i \in DOMAIN ids |-> Managed(ids[i])]
           own == Only(l, {c \in Range(l) : ~(c.server \/ c.id \in Range(ids))})
<1>1. s.made \in Nat /\ ConnectionsFit(s) /\ ListFits(l)
  BY DEF StoreSound, StateFits, ConnectionsFit
<1>2. /\ DOMAIN t = DOMAIN s /\ t.made = s.made
      /\ t.mapSources = s.mapSources /\ t.mapLayers = s.mapLayers /\ t.views = s.views
      /\ t.connections = front \o own
      /\ t.selected = IF Has(t.connections, s.selected) THEN s.selected ELSE First(t.connections)
  BY DEF StoreSound, StateFits, EmptyStore, UpsertServerConnections
<1>3. ListFits(own) /\ Range(own) = Range(l) \cap {x \in Range(l) : ~(x.server \/ x.id \in Range(ids))}
  BY <1>1, OnlyFits
<1>4. ASSUME NEW i \in ServerIds PROVE Managed(i) \in Connection /\ Managed(i).id = i
  <2>1. CASE Has(l, i)
    <3>1. Get(l, i) \in Range(l) /\ Get(l, i).id = i
      BY <2>1, GetOf
    <3>2. Get(l, i) \in Connection
      BY <1>1, <3>1 DEF ConnectionsFit
    <3> HIDE DEF l
    <3> QED
      BY <2>1, <3>1, <3>2 DEF Connection
  <2>2. CASE ~Has(l, i)
    BY <2>2, StoreConstants DEF Connection
  <2> QED
    BY <2>1, <2>2
<1> HIDE DEF t, own, l, Managed
<1>5. /\ ListFits(front) /\ \A x \in Range(front) : x \in Connection /\ x.id \in ServerIds
      /\ \A x \in Range(front) : x.id \in Range(ids)
  <2>1. CASE ids = << >>
    <3>1. front = << >>
      BY <2>1
    <3> HIDE DEF front
    <3> QED
      BY <3>1, EmptyFits
  <2>2. ASSUME NEW i \in ServerIds, ids = <<i>>
        PROVE  /\ ListFits(front)
               /\ \A x \in Range(front) : x \in Connection /\ x.id \in ServerIds
               /\ \A x \in Range(front) : x.id \in Range(ids)
    <3>1. front = <<Managed(i)>> /\ Range(ids) = {i}
      BY <2>2 DEF Range
    <3> HIDE DEF front
    <3>2. ListFits(front) /\ Range(front) = {Managed(i)}
      BY <3>1, SingleFits
    <3> QED
      BY <1>4, <3>1, <3>2
  <2> QED
    BY <2>1, <2>2
<1> HIDE DEF front
<1>6. \A x \in Range(front), y \in Range(own) : x.id # y.id
  BY <1>3, <1>5
<1>7. ListFits(t.connections) /\ Range(t.connections) = Range(front) \cup Range(own)
  BY <1>2, <1>3, <1>5, <1>6, ConcatFits
<1>8. ConnectionsFit(t)
  <2>1. \A x \in Range(own) : x \in Connection /\ x.id \in 1..s.made \cup ServerIds
    BY <1>1, <1>3 DEF ConnectionsFit, l
  <2> QED
    BY <1>2, <1>5, <1>7, <2>1 DEF ConnectionsFit
<1>9. SelectionStands(t)
  BY <1>2, <1>7, FallsToFirst
<1>10. s.made <= t.made /\ t.made \in Nat
  BY <1>1, <1>2
<1>11. StoreSound(t)
  BY <1>2, <1>8, <1>9, <1>10, DrawnLeft
<1>12. \A x \in Range(t.connections) : x.id \in Ids(s.connections) \cup ServerIds
  <2>1. \A x \in Range(own) : x.id \in Ids(s.connections)
    BY <1>3, IdsOf DEF l, Has
  <2> QED
    BY <1>5, <1>7, <2>1
<1>13. \A id \in Ids(t.connections) : id \in Ids(s.connections) \cup ServerIds
  BY <1>12, IdsOf DEF Has
<1> QED
  BY <1>11, <1>13 DEF t

(* Sources that change keep their identities, kinds and connections.       *)
LEMMA SourcesChanged ==
  ASSUME NEW s, StoreSound(s), NEW t, DOMAIN t = DOMAIN s, t.made \in Nat, s.made <= t.made,
         t.connections = s.connections, t.selected = s.selected, t.mapLayers = s.mapLayers,
         t.mapSources = [i \in DOMAIN s.mapSources |-> t.mapSources[i]],
         \A i \in DOMAIN s.mapSources :
           LET x == s.mapSources[i]
               z == t.mapSources[i]
           IN /\ DOMAIN z = SourceFields /\ z.id = x.id /\ z.kind = x.kind
              /\ z.connection = x.connection
              /\ z.kind = "geojson" => z.type = GeometryOf[z.table][z.column],
         ViewsFit(t), ViewsAreFollowed(t)
  PROVE  StoreSound(t)
<1> DEFINE l == s.mapSources
           m == t.mapSources
<1>1. /\ s.made \in Nat /\ ConnectionsFit(s) /\ SourcesFit(s) /\ LayersFit(s, {})
      /\ SelectionStands(s) /\ ListFits(l)
      /\ LayersHaveSources(s) /\ SourcesHaveLayers(s)
  BY DEF StoreSound, StateFits, SourcesFit, ReferencesStand
<1>2. /\ m = [i \in DOMAIN l |-> m[i]]
      /\ \A i \in DOMAIN l :
           /\ DOMAIN m[i] = SourceFields /\ m[i].id = l[i].id /\ m[i].kind = l[i].kind
           /\ m[i].connection = l[i].connection
           /\ m[i].kind = "geojson" => m[i].type = GeometryOf[m[i].table][m[i].column]
  OBVIOUS
<1> HIDE DEF l, m
<1>3. /\ ListFits(m)
      /\ \A x \in Range(m) : \E i \in DOMAIN l : x = m[i]
      /\ \A i \in DOMAIN l : m[i] \in Range(m) /\ l[i] \in Range(l)
  <2>1. Renewed(m, l)
    BY <1>2 DEF Renewed
  <2> QED
    BY <1>1, <2>1, ChangeFits
<1>4. \A x \in Range(l) : \E i \in DOMAIN l : x = l[i]
  BY DEF Range
<1>5. \A x \in Range(l) : x.id \in 1..t.made /\ x.kind \in {"geojson", "flowmap"}
  BY <1>1 DEF SourcesFit, l
<1>6. SourcesFit(t)
  <2>1. ASSUME NEW z \in Range(m)
        PROVE  DOMAIN z = SourceFields /\ z.id \in 1..t.made /\ z.kind \in {"geojson", "flowmap"}
    BY <1>2, <1>3, <1>5
  <2> QED
    BY <1>3, <2>1 DEF SourcesFit, m
<1>7. LayersHaveSources(t)
  <2>1. ASSUME NEW y \in Range(s.mapLayers)
        PROVE  \E z \in Range(m) :
                 /\ z.id = y.source /\ z.connection = y.connection
                 /\ z.kind = IF y.kind = "geojson" THEN "geojson" ELSE "flowmap"
    <3>1. PICK x \in Range(l) : 
                 /\ x.id = y.source /\ x.connection = y.connection
                 /\ x.kind = IF y.kind = "geojson" THEN "geojson" ELSE "flowmap"
      BY <1>1, <2>1 DEF LayersHaveSources, l
    <3>2. PICK i \in DOMAIN l : x = l[i]
      BY <1>4
    <3> QED
      BY <1>2, <1>3, <3>1, <3>2
  <2> QED
    BY <2>1 DEF LayersHaveSources, m
<1>8. SourcesHaveLayers(t)
  <2>1. ASSUME NEW z \in Range(m) PROVE \E y \in Range(s.mapLayers) : y.source = z.id
    <3>1. PICK i \in DOMAIN l : z = m[i]
      BY <1>3
    <3>2. \E y \in Range(s.mapLayers) : y.source = l[i].id
      BY <1>1, <1>3 DEF SourcesHaveLayers, l
    <3> QED
      BY <1>2, <3>1, <3>2
  <2> QED
    BY <2>1 DEF SourcesHaveLayers, m
<1>9. TypesFollowColumns(t)
  <2>1. ASSUME NEW z \in Range(m), z.kind = "geojson"
        PROVE  z.type = GeometryOf[z.table][z.column]
    BY <1>2, <1>3, <2>1
  <2> QED
    BY <2>1 DEF TypesFollowColumns, m
<1>10. ConnectionsFit(t) /\ LayersFit(t, {})
  BY <1>1, ConnectionsLeft, LayersLeft
<1>11. SelectionStands(t)
  BY <1>1 DEF SelectionStands
<1> QED
  BY <1>6, <1>7, <1>8, <1>9, <1>10, <1>11 DEF StoreSound, StateFits, ReferencesStand

(* A source that keeps its filter and its view follows it still.           *)
LEMMA SourcesTouched ==
  ASSUME NEW s, StoreSound(s), NEW t, DOMAIN t = DOMAIN s, t.made \in Nat, s.made <= t.made,
         t.connections = s.connections, t.selected = s.selected, t.mapLayers = s.mapLayers,
         t.views = s.views,
         t.mapSources = [i \in DOMAIN s.mapSources |-> t.mapSources[i]],
         \A i \in DOMAIN s.mapSources :
           LET x == s.mapSources[i]
               z == t.mapSources[i]
           IN /\ DOMAIN z = SourceFields /\ z.id = x.id /\ z.kind = x.kind
              /\ z.connection = x.connection /\ z.view = x.view /\ z.filter = x.filter
              /\ z.kind = "geojson" => z.type = GeometryOf[z.table][z.column]
  PROVE  StoreSound(t)
<1> DEFINE l == s.mapSources
           m == t.mapSources
<1>1. s.made \in Nat /\ ViewsFit(s) /\ ViewsAreFollowed(s)
  BY DEF StoreSound, StateFits, ReferencesStand
<1>2. ViewsFit(t)
  BY <1>1, ViewsLeft
<1>3. ViewsAreFollowed(t)
  <2>1. /\ m = [i \in DOMAIN l |-> m[i]]
        /\ \A i \in DOMAIN l :
             /\ m[i].kind = l[i].kind /\ m[i].connection = l[i].connection
             /\ m[i].view = l[i].view /\ m[i].filter = l[i].filter
    OBVIOUS
  <2> HIDE DEF l, m
  <2>2. ASSUME NEW z \in Range(m), z.view # None
        PROVE  /\ z.kind = "geojson" /\ z.filter # None
               /\ \E v \in Range(s.views) :
                    v.id = z.view /\ v.connection = z.connection /\ v.filter = z.filter
    <3>1. PICK i \in DOMAIN l : z = m[i]
      BY <2>1, <2>2 DEF Range
    <3>2. l[i] \in Range(l)
      BY DEF Range
    <3>3. l[i].view # None =>
               /\ l[i].kind = "geojson" /\ l[i].filter # None
               /\ \E v \in Range(s.views) :
                    v.id = l[i].view /\ v.connection = l[i].connection /\ v.filter = l[i].filter
      BY <1>1, <3>2 DEF ViewsAreFollowed, l
    <3> QED
      BY <2>1, <2>2, <3>1, <3>3
  <2> QED
    BY <2>2 DEF ViewsAreFollowed, m
<1> QED
  BY <1>2, <1>3, SourcesChanged

(* The source a step changes is at its place in the list.                  *)
LEMMA SourceAt ==
  ASSUME NEW s, StoreSound(s), NEW i \in DOMAIN s.mapSources
  PROVE  LET x == s.mapSources[i]
         IN /\ x \in Range(s.mapSources) /\ DOMAIN x = SourceFields
            /\ x.kind = "geojson" => x.type = GeometryOf[x.table][x.column]
<1>1. s.mapSources[i] \in Range(s.mapSources)
  BY DEF Range
<1> QED
  BY <1>1 DEF StoreSound, StateFits, SourcesFit, ReferencesStand, TypesFollowColumns

(* Operations on the sources.                                              *)
LEMMA RefreshConnectionKeeps ==
  ASSUME NEW s, StoreSound(s), NEW id
  PROVE  StoreSound(RefreshMapSourcesForConnection(s, id))
<1> DEFINE l == s.mapSources
           t == RefreshMapSourcesForConnection(s, id)
<1>1. /\ s.made \in Nat /\ DOMAIN t = DOMAIN s /\ t.made = s.made + 1
      /\ t.connections = s.connections /\ t.selected = s.selected
      /\ t.mapLayers = s.mapLayers /\ t.views = s.views
      /\ t.mapSources = [i \in DOMAIN l |-> IF l[i].connection = id THEN Touch(s, l[i]) ELSE l[i]]
  BY DEF StoreSound, StateFits, EmptyStore, RefreshMapSourcesForConnection, Mapped
<1>2. \A i \in DOMAIN l :
         /\ DOMAIN l[i] = SourceFields /\ l[i] \in Range(l)
         /\ l[i].kind = "geojson" => l[i].type = GeometryOf[l[i].table][l[i].column]
  BY SourceAt
<1> HIDE DEF t, l
<1>3. \A i \in DOMAIN l :
         LET z == t.mapSources[i]
         IN /\ DOMAIN z = SourceFields /\ z.id = l[i].id /\ z.kind = l[i].kind
            /\ z.connection = l[i].connection /\ z.view = l[i].view /\ z.filter = l[i].filter
            /\ z.kind = "geojson" => z.type = GeometryOf[z.table][z.column]
  <2> TAKE i \in DOMAIN l
  <2> DEFINE x == l[i]
             z == t.mapSources[i]
  <2>1. /\ DOMAIN x = SourceFields /\ x \in Range(l)
        /\ x.kind = "geojson" => x.type = GeometryOf[x.table][x.column]
    BY <1>2
  <2>2. z = IF x.connection = id THEN Touch(s, x) ELSE x
    BY <1>1
  <2> HIDE DEF x, z
  <2>3. /\ DOMAIN z = SourceFields /\ z.id = x.id /\ z.kind = x.kind
        /\ z.connection = x.connection /\ z.view = x.view /\ z.filter = x.filter
        /\ z.kind = "geojson" => z.type = GeometryOf[z.table][z.column]
    BY <2>1, <2>2 DEF Touch, SourceFields
  <2> QED
    BY <2>3 DEF x, z
<1>4. s.made <= t.made /\ t.made \in Nat
  <2>1. s.made \in Nat /\ t.made \in {s.made, s.made + 1}
    BY <1>1
  <2> QED
    BY <2>1
<1>5. t.mapSources = [i \in DOMAIN l |-> t.mapSources[i]]
  BY <1>1
<1>6. StoreSound(t)
  BY <1>1, <1>3, <1>4, <1>5, SourcesTouched DEF l
<1> QED
  BY <1>6 DEF t

(* The sources of a table are drawn again.                                 *)
LEMMA RefreshTableKeeps ==
  ASSUME NEW s, StoreSound(s), NEW p
  PROVE  StoreSound(RefreshGeoJsonSourcesForTable(s, p))
<1> DEFINE l == s.mapSources
           t == RefreshGeoJsonSourcesForTable(s, p)
<1>1. /\ s.made \in Nat /\ DOMAIN t = DOMAIN s /\ t.made = s.made + 1
      /\ t.connections = s.connections /\ t.selected = s.selected
      /\ t.mapLayers = s.mapLayers /\ t.views = s.views
      /\ t.mapSources = [i \in DOMAIN l |-> IF l[i].kind = "geojson" /\ SameTable(l[i], p) THEN Touch(s, l[i])
                                              ELSE l[i]]
  BY DEF StoreSound, StateFits, EmptyStore, RefreshGeoJsonSourcesForTable, Mapped
<1>2. \A i \in DOMAIN l :
         /\ DOMAIN l[i] = SourceFields /\ l[i] \in Range(l)
         /\ l[i].kind = "geojson" => l[i].type = GeometryOf[l[i].table][l[i].column]
  BY SourceAt
<1> HIDE DEF t, l
<1>3. \A i \in DOMAIN l :
         LET z == t.mapSources[i]
         IN /\ DOMAIN z = SourceFields /\ z.id = l[i].id /\ z.kind = l[i].kind
            /\ z.connection = l[i].connection /\ z.view = l[i].view /\ z.filter = l[i].filter
            /\ z.kind = "geojson" => z.type = GeometryOf[z.table][z.column]
  <2> TAKE i \in DOMAIN l
  <2> DEFINE x == l[i]
             z == t.mapSources[i]
  <2>1. /\ DOMAIN x = SourceFields /\ x \in Range(l)
        /\ x.kind = "geojson" => x.type = GeometryOf[x.table][x.column]
    BY <1>2
  <2>2. z = IF x.kind = "geojson" /\ SameTable(x, p) THEN Touch(s, x) ELSE x
    BY <1>1
  <2> HIDE DEF x, z
  <2>3. /\ DOMAIN z = SourceFields /\ z.id = x.id /\ z.kind = x.kind
        /\ z.connection = x.connection /\ z.view = x.view /\ z.filter = x.filter
        /\ z.kind = "geojson" => z.type = GeometryOf[z.table][z.column]
    BY <2>1, <2>2 DEF Touch, SourceFields
  <2> QED
    BY <2>3 DEF x, z
<1>4. s.made <= t.made /\ t.made \in Nat
  <2>1. s.made \in Nat /\ t.made \in {s.made, s.made + 1}
    BY <1>1
  <2> QED
    BY <2>1
<1>5. t.mapSources = [i \in DOMAIN l |-> t.mapSources[i]]
  BY <1>1
<1>6. StoreSound(t)
  BY <1>1, <1>3, <1>4, <1>5, SourcesTouched DEF l
<1> QED
  BY <1>6 DEF t

(* The type of a source changes with its column.                           *)
LEMMA ColumnKeeps ==
  ASSUME NEW s, StoreSound(s), NEW id, NEW column, NEW type,
         \A x \in Range(s.mapSources) :
           x.id = id /\ x.kind = "geojson" => type = GeometryOf[x.table][column]
  PROVE  StoreSound(UpdateGeoJsonColumn(s, id, column, type))
<1> DEFINE l == s.mapSources
           t == UpdateGeoJsonColumn(s, id, column, type)
<1>1. /\ s.made \in Nat /\ DOMAIN t = DOMAIN s /\ t.made = s.made + 1
      /\ t.connections = s.connections /\ t.selected = s.selected
      /\ t.mapLayers = s.mapLayers /\ t.views = s.views
      /\ t.mapSources = [i \in DOMAIN l |-> IF l[i].id = id /\ l[i].kind = "geojson"
                                              THEN [Touch(s, l[i]) EXCEPT !.column = column, !.type = type]
                                              ELSE l[i]]
  BY DEF StoreSound, StateFits, EmptyStore, UpdateGeoJsonColumn, OfSource, Mapped
<1>2. \A i \in DOMAIN l :
         /\ DOMAIN l[i] = SourceFields /\ l[i] \in Range(l)
         /\ l[i].kind = "geojson" => l[i].type = GeometryOf[l[i].table][l[i].column]
  BY SourceAt
<1> HIDE DEF t, l
<1>3. \A i \in DOMAIN l :
         LET z == t.mapSources[i]
         IN /\ DOMAIN z = SourceFields /\ z.id = l[i].id /\ z.kind = l[i].kind
            /\ z.connection = l[i].connection /\ z.view = l[i].view /\ z.filter = l[i].filter
            /\ z.kind = "geojson" => z.type = GeometryOf[z.table][z.column]
  <2> TAKE i \in DOMAIN l
  <2> DEFINE x == l[i]
             z == t.mapSources[i]
  <2>1. /\ DOMAIN x = SourceFields /\ x \in Range(l)
        /\ x.kind = "geojson" => x.type = GeometryOf[x.table][x.column]
        /\ x.id = id /\ x.kind = "geojson" => type = GeometryOf[x.table][column]
    BY <1>2 DEF l
  <2>2. z = IF x.id = id /\ x.kind = "geojson"
            THEN [Touch(s, x) EXCEPT !.column = column, !.type = type] ELSE x
    BY <1>1
  <2> HIDE DEF x, z
  <2>3. /\ DOMAIN z = SourceFields /\ z.id = x.id /\ z.kind = x.kind
        /\ z.connection = x.connection /\ z.view = x.view /\ z.filter = x.filter
        /\ z.kind = "geojson" => z.type = GeometryOf[z.table][z.column]
    BY <2>1, <2>2 DEF Touch, SourceFields
  <2> QED
    BY <2>3 DEF x, z
<1>4. s.made <= t.made /\ t.made \in Nat
  <2>1. s.made \in Nat /\ t.made \in {s.made, s.made + 1}
    BY <1>1
  <2> QED
    BY <2>1
<1>5. t.mapSources = [i \in DOMAIN l |-> t.mapSources[i]]
  BY <1>1
<1>6. StoreSound(t)
  BY <1>1, <1>3, <1>4, <1>5, SourcesTouched DEF l
<1> QED
  BY <1>6 DEF t

(* A geometry source takes a spatial filter.                               *)
LEMMA SpatialKeeps ==
  ASSUME NEW s, StoreSound(s), NEW id, NEW spatial
  PROVE  StoreSound(UpdateGeoJsonSpatial(s, id, spatial))
<1> DEFINE l == s.mapSources
           t == UpdateGeoJsonSpatial(s, id, spatial)
<1>1. /\ s.made \in Nat /\ DOMAIN t = DOMAIN s /\ t.made = s.made + 1
      /\ t.connections = s.connections /\ t.selected = s.selected
      /\ t.mapLayers = s.mapLayers /\ t.views = s.views
      /\ t.mapSources = [i \in DOMAIN l |-> IF l[i].id = id /\ l[i].kind = "geojson"
                                              THEN [Touch(s, l[i]) EXCEPT !.spatial = spatial]
                                              ELSE l[i]]
  BY DEF StoreSound, StateFits, EmptyStore, UpdateGeoJsonSpatial, OfSource, Mapped
<1>2. \A i \in DOMAIN l :
         /\ DOMAIN l[i] = SourceFields /\ l[i] \in Range(l)
         /\ l[i].kind = "geojson" => l[i].type = GeometryOf[l[i].table][l[i].column]
  BY SourceAt
<1> HIDE DEF t, l
<1>3. \A i \in DOMAIN l :
         LET z == t.mapSources[i]
         IN /\ DOMAIN z = SourceFields /\ z.id = l[i].id /\ z.kind = l[i].kind
            /\ z.connection = l[i].connection /\ z.view = l[i].view /\ z.filter = l[i].filter
            /\ z.kind = "geojson" => z.type = GeometryOf[z.table][z.column]
  <2> TAKE i \in DOMAIN l
  <2> DEFINE x == l[i]
             z == t.mapSources[i]
  <2>1. /\ DOMAIN x = SourceFields /\ x \in Range(l)
        /\ x.kind = "geojson" => x.type = GeometryOf[x.table][x.column]
    BY <1>2
  <2>2. z = IF x.id = id /\ x.kind = "geojson" THEN [Touch(s, x) EXCEPT !.spatial = spatial] ELSE x
    BY <1>1
  <2> HIDE DEF x, z
  <2>3. /\ DOMAIN z = SourceFields /\ z.id = x.id /\ z.kind = x.kind
        /\ z.connection = x.connection /\ z.view = x.view /\ z.filter = x.filter
        /\ z.kind = "geojson" => z.type = GeometryOf[z.table][z.column]
    BY <2>1, <2>2 DEF Touch, SourceFields
  <2> QED
    BY <2>3 DEF x, z
<1>4. s.made <= t.made /\ t.made \in Nat
  <2>1. s.made \in Nat /\ t.made \in {s.made, s.made + 1}
    BY <1>1
  <2> QED
    BY <2>1
<1>5. t.mapSources = [i \in DOMAIN l |-> t.mapSources[i]]
  BY <1>1
<1>6. StoreSound(t)
  BY <1>1, <1>3, <1>4, <1>5, SourcesTouched DEF l
<1> QED
  BY <1>6 DEF t

(* A flow source takes other columns.                                      *)
LEMMA FlowKeeps ==
  ASSUME NEW s, StoreSound(s), NEW id, NEW flow
  PROVE  StoreSound(UpdateFlowmapSource(s, id, flow))
<1> DEFINE l == s.mapSources
           t == UpdateFlowmapSource(s, id, flow)
<1>1. /\ s.made \in Nat /\ DOMAIN t = DOMAIN s /\ t.made = s.made
      /\ t.connections = s.connections /\ t.selected = s.selected
      /\ t.mapLayers = s.mapLayers /\ t.views = s.views
      /\ t.mapSources = [i \in DOMAIN l |-> IF l[i].id = id /\ l[i].kind = "flowmap"
                                              THEN [l[i] EXCEPT !.flow = flow] ELSE l[i]]
  BY DEF StoreSound, StateFits, EmptyStore, UpdateFlowmapSource, OfSource, Mapped
<1>2. \A i \in DOMAIN l :
         /\ DOMAIN l[i] = SourceFields /\ l[i] \in Range(l)
         /\ l[i].kind = "geojson" => l[i].type = GeometryOf[l[i].table][l[i].column]
  BY SourceAt
<1> HIDE DEF t, l
<1>3. \A i \in DOMAIN l :
         LET z == t.mapSources[i]
         IN /\ DOMAIN z = SourceFields /\ z.id = l[i].id /\ z.kind = l[i].kind
            /\ z.connection = l[i].connection /\ z.view = l[i].view /\ z.filter = l[i].filter
            /\ z.kind = "geojson" => z.type = GeometryOf[z.table][z.column]
  <2> TAKE i \in DOMAIN l
  <2> DEFINE x == l[i]
             z == t.mapSources[i]
  <2>1. /\ DOMAIN x = SourceFields /\ x \in Range(l)
        /\ x.kind = "geojson" => x.type = GeometryOf[x.table][x.column]
    BY <1>2
  <2>2. z = IF x.id = id /\ x.kind = "flowmap" THEN [x EXCEPT !.flow = flow] ELSE x
    BY <1>1
  <2> HIDE DEF x, z
  <2>3. /\ DOMAIN z = SourceFields /\ z.id = x.id /\ z.kind = x.kind
        /\ z.connection = x.connection /\ z.view = x.view /\ z.filter = x.filter
        /\ z.kind = "geojson" => z.type = GeometryOf[z.table][z.column]
    BY <2>1, <2>2 DEF SourceFields
  <2> QED
    BY <2>3 DEF x, z
<1>4. s.made <= t.made /\ t.made \in Nat
  <2>1. s.made \in Nat /\ t.made \in {s.made, s.made + 1}
    BY <1>1
  <2> QED
    BY <2>1
<1>5. t.mapSources = [i \in DOMAIN l |-> t.mapSources[i]]
  BY <1>1
<1>6. StoreSound(t)
  BY <1>1, <1>3, <1>4, <1>5, SourcesTouched DEF l
<1> QED
  BY <1>6 DEF t

(* A flow source takes a spatial filter.                                   *)
LEMMA FlowSpatialKeeps ==
  ASSUME NEW s, StoreSound(s), NEW id, NEW spatial
  PROVE  StoreSound(UpdateFlowmapSpatialFilter(s, id, spatial))
<1> DEFINE l == s.mapSources
           t == UpdateFlowmapSpatialFilter(s, id, spatial)
<1>1. /\ s.made \in Nat /\ DOMAIN t = DOMAIN s /\ t.made = s.made
      /\ t.connections = s.connections /\ t.selected = s.selected
      /\ t.mapLayers = s.mapLayers /\ t.views = s.views
      /\ t.mapSources = [i \in DOMAIN l |-> IF l[i].id = id /\ l[i].kind = "flowmap"
                                              THEN [l[i] EXCEPT !.spatial = spatial] ELSE l[i]]
  BY DEF StoreSound, StateFits, EmptyStore, UpdateFlowmapSpatialFilter, OfSource, Mapped
<1>2. \A i \in DOMAIN l :
         /\ DOMAIN l[i] = SourceFields /\ l[i] \in Range(l)
         /\ l[i].kind = "geojson" => l[i].type = GeometryOf[l[i].table][l[i].column]
  BY SourceAt
<1> HIDE DEF t, l
<1>3. \A i \in DOMAIN l :
         LET z == t.mapSources[i]
         IN /\ DOMAIN z = SourceFields /\ z.id = l[i].id /\ z.kind = l[i].kind
            /\ z.connection = l[i].connection /\ z.view = l[i].view /\ z.filter = l[i].filter
            /\ z.kind = "geojson" => z.type = GeometryOf[z.table][z.column]
  <2> TAKE i \in DOMAIN l
  <2> DEFINE x == l[i]
             z == t.mapSources[i]
  <2>1. /\ DOMAIN x = SourceFields /\ x \in Range(l)
        /\ x.kind = "geojson" => x.type = GeometryOf[x.table][x.column]
    BY <1>2
  <2>2. z = IF x.id = id /\ x.kind = "flowmap" THEN [x EXCEPT !.spatial = spatial] ELSE x
    BY <1>1
  <2> HIDE DEF x, z
  <2>3. /\ DOMAIN z = SourceFields /\ z.id = x.id /\ z.kind = x.kind
        /\ z.connection = x.connection /\ z.view = x.view /\ z.filter = x.filter
        /\ z.kind = "geojson" => z.type = GeometryOf[z.table][z.column]
    BY <2>1, <2>2 DEF SourceFields
  <2> QED
    BY <2>3 DEF x, z
<1>4. s.made <= t.made /\ t.made \in Nat
  <2>1. s.made \in Nat /\ t.made \in {s.made, s.made + 1}
    BY <1>1
  <2> QED
    BY <2>1
<1>5. t.mapSources = [i \in DOMAIN l |-> t.mapSources[i]]
  BY <1>1
<1>6. StoreSound(t)
  BY <1>1, <1>3, <1>4, <1>5, SourcesTouched DEF l
<1> QED
  BY <1>6 DEF t

(* Layers that change keep their identities, kinds, connections, sources.  *)
SameLayer(z, y) ==
  /\ DOMAIN z = LayerFields /\ z.id = y.id /\ z.kind = y.kind
  /\ z.connection = y.connection /\ z.source = y.source
  /\ z.visible \in BOOLEAN /\ z.purpose \in {"configured", "record-preview"}
  /\ DOMAIN z.style = DOMAIN StyleOf(z.kind, 0)
LayersKept(t, s) == StoreSound(t) /\ Ids(t.mapLayers) = Ids(s.mapLayers)

(* A step that changes layers alone.                                       *)
LEMMA LayersChanged ==
  ASSUME NEW s, StoreSound(s), NEW t, DOMAIN t = DOMAIN s, t.made = s.made,
         t.connections = s.connections, t.selected = s.selected, t.mapSources = s.mapSources,
         t.views = s.views,
         t.mapLayers = [i \in DOMAIN s.mapLayers |-> t.mapLayers[i]],
         \A i \in DOMAIN s.mapLayers : SameLayer(t.mapLayers[i], s.mapLayers[i])
  PROVE  LayersKept(t, s)
<1> DEFINE l == s.mapLayers
           m == t.mapLayers
<1>1. /\ s.made \in Nat /\ ConnectionsFit(s) /\ SourcesFit(s) /\ LayersFit(s, {}) /\ ViewsFit(s)
      /\ SelectionStands(s) /\ ListFits(l)
      /\ LayersHaveSources(s) /\ SourcesHaveLayers(s) /\ TypesFollowColumns(s) /\ ViewsAreFollowed(s)
  BY DEF StoreSound, StateFits, LayersFit, ReferencesStand
<1>2. m = [i \in DOMAIN l |-> m[i]] /\ \A i \in DOMAIN l : SameLayer(m[i], l[i])
  OBVIOUS
<1> HIDE DEF l, m
<1>3. /\ ListFits(m)
      /\ \A x \in Range(m) : \E i \in DOMAIN l : x = m[i]
      /\ \A i \in DOMAIN l : m[i] \in Range(m) /\ l[i] \in Range(l)
      /\ Ids(m) = Ids(l)
  <2>1. Renewed(m, l)
    BY <1>2 DEF Renewed, SameLayer
  <2> QED
    BY <1>1, <2>1, ChangeFits
<1>4. \A x \in Range(l) : \E i \in DOMAIN l : x = l[i]
  BY DEF Range
<1>5. LayersFit(t, {})
  <2>1. ASSUME NEW z \in Range(m)
        PROVE  /\ DOMAIN z = LayerFields /\ z.id \in 1..t.made
               /\ z.kind \in {"geojson", "flowmap", "arc"} /\ z.visible \in BOOLEAN
               /\ z.purpose \in {"configured", "record-preview"} \cup {}
               /\ z.style \in {} \/ DOMAIN z.style = DOMAIN StyleOf(z.kind, 0)
    <3>1. PICK i \in DOMAIN l : z = m[i]
      BY <1>3
    <3>2. l[i].id \in 1..s.made /\ l[i].kind \in {"geojson", "flowmap", "arc"}
      BY <1>1, <1>3 DEF LayersFit, l
    <3> QED
      BY <1>2, <3>1, <3>2 DEF SameLayer
  <2> QED
    BY <1>3, <2>1 DEF LayersFit, m
<1>6. LayersHaveSources(t)
  <2>1. ASSUME NEW z \in Range(m)
        PROVE  \E x \in Range(s.mapSources) :
                 /\ x.id = z.source /\ x.connection = z.connection
                 /\ x.kind = IF z.kind = "geojson" THEN "geojson" ELSE "flowmap"
    <3>1. PICK i \in DOMAIN l : z = m[i]
      BY <1>3
    <3>2. \E x \in Range(s.mapSources) :
                 /\ x.id = l[i].source /\ x.connection = l[i].connection
                 /\ x.kind = IF l[i].kind = "geojson" THEN "geojson" ELSE "flowmap"
      BY <1>1, <1>3 DEF LayersHaveSources, l
    <3> QED
      BY <1>2, <3>1, <3>2 DEF SameLayer
  <2> QED
    BY <2>1 DEF LayersHaveSources, m
<1>7. SourcesHaveLayers(t)
  <2>1. ASSUME NEW x \in Range(s.mapSources) PROVE \E z \in Range(m) : z.source = x.id
    <3>1. PICK y \in Range(l) : y.source = x.id
      BY <1>1 DEF SourcesHaveLayers, l
    <3>2. PICK i \in DOMAIN l : y = l[i]
      BY <1>4
    <3> QED
      BY <1>2, <1>3, <3>1, <3>2 DEF SameLayer
  <2> QED
    BY <2>1 DEF SourcesHaveLayers, m
<1>8. TypesFollowColumns(t) /\ ViewsAreFollowed(t) /\ SelectionStands(t)
  BY <1>1 DEF TypesFollowColumns, ViewsAreFollowed, SelectionStands
<1>9. ConnectionsFit(t) /\ SourcesFit(t) /\ ViewsFit(t)
  BY <1>1, ConnectionsLeft, SourcesLeft, ViewsLeft
<1>10. StoreSound(t)
  BY <1>1, <1>5, <1>6, <1>7, <1>8, <1>9 DEF StoreSound, StateFits, ReferencesStand
<1> QED
  BY <1>3, <1>10 DEF LayersKept, l, m

(* The layer a step changes is at its place in the list.                   *)
LEMMA LayerAt ==
  ASSUME NEW s, StoreSound(s), NEW i \in DOMAIN s.mapLayers
  PROVE  /\ s.mapLayers[i] \in Range(s.mapLayers)
         /\ SameLayer(s.mapLayers[i], s.mapLayers[i])
<1>1. s.mapLayers[i] \in Range(s.mapLayers)
  BY DEF Range
<1> QED
  BY <1>1 DEF StoreSound, StateFits, LayersFit, SameLayer

(* A patch changes the name, the icon, the tooltip or one field of the     *)
(* style.                                                                  *)
LEMMA PatchSame ==
  ASSUME NEW y, SameLayer(y, y), NEW field, NEW value
  PROVE  SameLayer(Patched(y, field, value), y)
<1>1. CASE field \in {"name", "icon", "tooltip"}
  <2>1. Patched(y, field, value) = [y EXCEPT ![field] = value]
    BY <1>1 DEF Patched
  <2> QED
    BY <1>1, <2>1 DEF SameLayer, LayerFields
<1>2. CASE field \notin {"name", "icon", "tooltip"}
  <2> DEFINE w == [y.style EXCEPT ![field] = value]
  <2>1. Patched(y, field, value) = [y EXCEPT !.style = w]
    BY <1>2 DEF Patched
  <2>2. DOMAIN w = DOMAIN y.style
    OBVIOUS
  <2> HIDE DEF w
  <2> QED
    BY <2>1, <2>2 DEF SameLayer, LayerFields
<1> QED
  BY <1>1, <1>2

(* Operations on the layers.                                               *)
LEMMA VisibilityKeeps ==
  ASSUME NEW s, StoreSound(s), NEW id
  PROVE  LayersKept(ToggleMapLayerVisibility(s, id), s)
<1> DEFINE l == s.mapLayers
           t == ToggleMapLayerVisibility(s, id)
<1>1. /\ DOMAIN t = DOMAIN s /\ t.made = s.made
      /\ t.connections = s.connections /\ t.selected = s.selected
      /\ t.mapSources = s.mapSources /\ t.views = s.views
      /\ t.mapLayers = [i \in DOMAIN l |-> IF l[i].id = id /\ l[i].kind \in {"geojson", "flowmap", "arc"}
                                           THEN [l[i] EXCEPT !.visible = ~@] ELSE l[i]]
  BY DEF StoreSound, StateFits, EmptyStore, ToggleMapLayerVisibility, OfLayer, Mapped
<1>2. \A i \in DOMAIN l : SameLayer(l[i], l[i])
  BY LayerAt
<1> HIDE DEF t, l
<1>3. ASSUME NEW i \in DOMAIN l PROVE SameLayer(t.mapLayers[i], l[i])
  <2> DEFINE y == l[i]
             w == [y EXCEPT !.visible = ~@]
  <2>1. SameLayer(y, y)
    BY <1>2
  <2>2. SameLayer(w, y)
    <3> HIDE DEF y
    <3> QED
      BY <2>1 DEF SameLayer, LayerFields
  <2>3. t.mapLayers[i] = w \/ t.mapLayers[i] = y
    BY <1>1
  <2> HIDE DEF w, y
  <2>4. SameLayer(t.mapLayers[i], y)
    BY <2>1, <2>2, <2>3
  <2> QED
    BY <2>4 DEF y
<1>4. t.mapLayers = [i \in DOMAIN l |-> t.mapLayers[i]]
  BY <1>1
<1>5. LayersKept(t, s)
  BY <1>1, <1>3, <1>4, LayersChanged DEF l
<1> QED
  BY <1>5 DEF t

(* A layer is shown again.                                                 *)
LEMMA ShownKeeps ==
  ASSUME NEW s, StoreSound(s), NEW id, NEW kinds
  PROVE  LayersKept(OfLayer(s, id, kinds, LAMBDA y : [y EXCEPT !.visible = TRUE]), s)
<1> DEFINE l == s.mapLayers
           t == OfLayer(s, id, kinds, LAMBDA y : [y EXCEPT !.visible = TRUE])
<1>1. /\ DOMAIN t = DOMAIN s /\ t.made = s.made
      /\ t.connections = s.connections /\ t.selected = s.selected
      /\ t.mapSources = s.mapSources /\ t.views = s.views
      /\ t.mapLayers = [i \in DOMAIN l |-> IF l[i].id = id /\ l[i].kind \in kinds
                                           THEN [l[i] EXCEPT !.visible = TRUE] ELSE l[i]]
  BY DEF StoreSound, StateFits, EmptyStore, OfLayer, Mapped
<1>2. \A i \in DOMAIN l : SameLayer(l[i], l[i])
  BY LayerAt
<1> HIDE DEF t, l
<1>3. ASSUME NEW i \in DOMAIN l PROVE SameLayer(t.mapLayers[i], l[i])
  <2> DEFINE y == l[i]
             w == [y EXCEPT !.visible = TRUE]
  <2>1. SameLayer(y, y)
    BY <1>2
  <2>2. SameLayer(w, y)
    <3> HIDE DEF y
    <3> QED
      BY <2>1 DEF SameLayer, LayerFields
  <2>3. t.mapLayers[i] = w \/ t.mapLayers[i] = y
    BY <1>1
  <2> HIDE DEF w, y
  <2>4. SameLayer(t.mapLayers[i], y)
    BY <2>1, <2>2, <2>3
  <2> QED
    BY <2>4 DEF y
<1>4. t.mapLayers = [i \in DOMAIN l |-> t.mapLayers[i]]
  BY <1>1
<1>5. LayersKept(t, s)
  BY <1>1, <1>3, <1>4, LayersChanged DEF l
<1> QED
  BY <1>5 DEF t

Named(s, id, kinds, value) == OfLayer(s, id, kinds, LAMBDA z : [z EXCEPT !.name = value])

(* A layer takes a name.                                                   *)
LEMMA NameKeeps ==
  ASSUME NEW s, StoreSound(s), NEW id, NEW kinds, NEW value
  PROVE  LayersKept(Named(s, id, kinds, value), s)
<1> DEFINE l == s.mapLayers
           t == Named(s, id, kinds, value)
<1>1. /\ DOMAIN t = DOMAIN s /\ t.made = s.made
      /\ t.connections = s.connections /\ t.selected = s.selected
      /\ t.mapSources = s.mapSources /\ t.views = s.views
      /\ t.mapLayers = [i \in DOMAIN l |-> IF l[i].id = id /\ l[i].kind \in kinds
                                           THEN [l[i] EXCEPT !.name = value] ELSE l[i]]
  BY DEF StoreSound, StateFits, EmptyStore, Named, OfLayer, Mapped
<1>2. \A i \in DOMAIN l : SameLayer(l[i], l[i])
  BY LayerAt
<1> HIDE DEF t, l
<1>3. ASSUME NEW i \in DOMAIN l PROVE SameLayer(t.mapLayers[i], l[i])
  <2> DEFINE y == l[i]
             w == [y EXCEPT !.name = value]
  <2>1. SameLayer(y, y)
    BY <1>2
  <2>2. SameLayer(w, y)
    <3> HIDE DEF y
    <3> QED
      BY <2>1 DEF SameLayer, LayerFields
  <2>3. t.mapLayers[i] = w \/ t.mapLayers[i] = y
    BY <1>1
  <2> HIDE DEF w, y
  <2>4. SameLayer(t.mapLayers[i], y)
    BY <2>1, <2>2, <2>3
  <2> QED
    BY <2>4 DEF y
<1>4. t.mapLayers = [i \in DOMAIN l |-> t.mapLayers[i]]
  BY <1>1
<1>5. LayersKept(t, s)
  BY <1>1, <1>3, <1>4, LayersChanged DEF l
<1> QED
  BY <1>5 DEF t

(* A field of a geometry layer is set.                                     *)
LEMMA GeoJsonPatchKeeps ==
  ASSUME NEW s, StoreSound(s), NEW id, NEW field, NEW value
  PROVE  LayersKept(UpdateGeoJsonLayer(s, id, field, value), s)
<1> DEFINE l == s.mapLayers
           t == UpdateGeoJsonLayer(s, id, field, value)
<1>1. /\ DOMAIN t = DOMAIN s /\ t.made = s.made
      /\ t.connections = s.connections /\ t.selected = s.selected
      /\ t.mapSources = s.mapSources /\ t.views = s.views
      /\ t.mapLayers = [i \in DOMAIN l |-> IF l[i].id = id /\ l[i].kind \in {"geojson"}
                                           THEN Patched(l[i], field, value) ELSE l[i]]
  BY DEF StoreSound, StateFits, EmptyStore, UpdateGeoJsonLayer, OfLayer, Mapped
<1>2. \A i \in DOMAIN l : SameLayer(l[i], l[i])
  BY LayerAt
<1> HIDE DEF t, l
<1>3. ASSUME NEW i \in DOMAIN l PROVE SameLayer(t.mapLayers[i], l[i])
  <2> DEFINE y == l[i]
             w == Patched(y, field, value)
  <2>1. SameLayer(y, y)
    BY <1>2
  <2>2. SameLayer(w, y)
    BY <2>1, PatchSame
  <2>3. t.mapLayers[i] = w \/ t.mapLayers[i] = y
    BY <1>1
  <2> HIDE DEF w, y
  <2>4. SameLayer(t.mapLayers[i], y)
    BY <2>1, <2>2, <2>3
  <2> QED
    BY <2>4 DEF y
<1>4. t.mapLayers = [i \in DOMAIN l |-> t.mapLayers[i]]
  BY <1>1
<1>5. LayersKept(t, s)
  BY <1>1, <1>3, <1>4, LayersChanged DEF l
<1> QED
  BY <1>5 DEF t

(* A field of a flow layer is set.                                         *)
LEMMA FlowmapPatchKeeps ==
  ASSUME NEW s, StoreSound(s), NEW id, NEW field, NEW value
  PROVE  LayersKept(UpdateFlowmapLayer(s, id, field, value), s)
<1> DEFINE l == s.mapLayers
           t == UpdateFlowmapLayer(s, id, field, value)
<1>1. /\ DOMAIN t = DOMAIN s /\ t.made = s.made
      /\ t.connections = s.connections /\ t.selected = s.selected
      /\ t.mapSources = s.mapSources /\ t.views = s.views
      /\ t.mapLayers = [i \in DOMAIN l |-> IF l[i].id = id /\ l[i].kind \in {"flowmap"}
                                           THEN Patched(l[i], field, value) ELSE l[i]]
  BY DEF StoreSound, StateFits, EmptyStore, UpdateFlowmapLayer, OfLayer, Mapped
<1>2. \A i \in DOMAIN l : SameLayer(l[i], l[i])
  BY LayerAt
<1> HIDE DEF t, l
<1>3. ASSUME NEW i \in DOMAIN l PROVE SameLayer(t.mapLayers[i], l[i])
  <2> DEFINE y == l[i]
             w == Patched(y, field, value)
  <2>1. SameLayer(y, y)
    BY <1>2
  <2>2. SameLayer(w, y)
    BY <2>1, PatchSame
  <2>3. t.mapLayers[i] = w \/ t.mapLayers[i] = y
    BY <1>1
  <2> HIDE DEF w, y
  <2>4. SameLayer(t.mapLayers[i], y)
    BY <2>1, <2>2, <2>3
  <2> QED
    BY <2>4 DEF y
<1>4. t.mapLayers = [i \in DOMAIN l |-> t.mapLayers[i]]
  BY <1>1
<1>5. LayersKept(t, s)
  BY <1>1, <1>3, <1>4, LayersChanged DEF l
<1> QED
  BY <1>5 DEF t

(* A field of an arc layer is set.                                         *)
LEMMA ArcPatchKeeps ==
  ASSUME NEW s, StoreSound(s), NEW id, NEW field, NEW value
  PROVE  LayersKept(UpdateArcLayer(s, id, field, value), s)
<1> DEFINE l == s.mapLayers
           t == UpdateArcLayer(s, id, field, value)
<1>1. /\ DOMAIN t = DOMAIN s /\ t.made = s.made
      /\ t.connections = s.connections /\ t.selected = s.selected
      /\ t.mapSources = s.mapSources /\ t.views = s.views
      /\ t.mapLayers = [i \in DOMAIN l |-> IF l[i].id = id /\ l[i].kind \in {"arc"}
                                           THEN Patched(l[i], field, value) ELSE l[i]]
  BY DEF StoreSound, StateFits, EmptyStore, UpdateArcLayer, OfLayer, Mapped
<1>2. \A i \in DOMAIN l : SameLayer(l[i], l[i])
  BY LayerAt
<1> HIDE DEF t, l
<1>3. ASSUME NEW i \in DOMAIN l PROVE SameLayer(t.mapLayers[i], l[i])
  <2> DEFINE y == l[i]
             w == Patched(y, field, value)
  <2>1. SameLayer(y, y)
    BY <1>2
  <2>2. SameLayer(w, y)
    BY <2>1, PatchSame
  <2>3. t.mapLayers[i] = w \/ t.mapLayers[i] = y
    BY <1>1
  <2> HIDE DEF w, y
  <2>4. SameLayer(t.mapLayers[i], y)
    BY <2>1, <2>2, <2>3
  <2> QED
    BY <2>4 DEF y
<1>4. t.mapLayers = [i \in DOMAIN l |-> t.mapLayers[i]]
  BY <1>1
<1>5. LayersKept(t, s)
  BY <1>1, <1>3, <1>4, LayersChanged DEF l
<1> QED
  BY <1>5 DEF t

(* Entries that go leave a list.                                           *)
LEMMA RangeLeft ==
  ASSUME NEW s, StoreSound(s)
  PROVE  /\ ListFits(s.connections) /\ ListFits(s.mapSources) /\ ListFits(s.mapLayers)
         /\ ListFits(s.views) /\ s.made \in Nat /\ DOMAIN s = DOMAIN EmptyStore
  BY DEF StoreSound, StateFits, ConnectionsFit, SourcesFit, LayersFit, ViewsFit

(* Fewer layers, sources and views, as long as what stays stands.          *)
LEMMA FewerStand ==
  ASSUME NEW s, StoreSound(s), NEW t, DOMAIN t = DOMAIN s, t.made = s.made,
         ListFits(t.mapSources), ListFits(t.mapLayers), ListFits(t.views),
         Range(t.mapSources) \subseteq Range(s.mapSources),
         Range(t.mapLayers) \subseteq Range(s.mapLayers),
         Range(t.views) \subseteq Range(s.views),
         \A y \in Range(t.mapLayers), x \in Range(s.mapSources) :
           x.id = y.source => x \in Range(t.mapSources),
         SourcesHaveLayers(t),
         \A x \in Range(t.mapSources), v \in Range(s.views) :
           v.id = x.view /\ v.connection = x.connection => v \in Range(t.views),
         ConnectionsFit(t), SelectionStands(t)
  PROVE  StoreSound(t)
<1>1. /\ s.made \in Nat /\ SourcesFit(s) /\ LayersFit(s, {}) /\ ViewsFit(s)
      /\ LayersHaveSources(s) /\ TypesFollowColumns(s) /\ ViewsAreFollowed(s)
  BY DEF StoreSound, StateFits, ReferencesStand
<1>2. SourcesFit(t) /\ ViewsFit(t)
  BY <1>1 DEF SourcesFit, ViewsFit
<1>3. LayersFit(t, {})
  BY <1>1 DEF LayersFit
<1>4. LayersHaveSources(t)
  <2>1. ASSUME NEW y \in Range(t.mapLayers)
        PROVE  \E x \in Range(t.mapSources) :
                 /\ x.id = y.source /\ x.connection = y.connection
                 /\ x.kind = IF y.kind = "geojson" THEN "geojson" ELSE "flowmap"
    <3>1. PICK x \in Range(s.mapSources) :
                 /\ x.id = y.source /\ x.connection = y.connection
                 /\ x.kind = IF y.kind = "geojson" THEN "geojson" ELSE "flowmap"
      BY <1>1, <2>1 DEF LayersHaveSources
    <3>2. x \in Range(t.mapSources)
      BY <2>1, <3>1
    <3> QED
      BY <3>1, <3>2
  <2> QED
    BY <2>1 DEF LayersHaveSources
<1>5. TypesFollowColumns(t)
  BY <1>1 DEF TypesFollowColumns
<1>6. ViewsAreFollowed(t)
  <2>1. ASSUME NEW x \in Range(t.mapSources), x.view # None
        PROVE  /\ x.kind = "geojson" /\ x.filter # None
               /\ \E v \in Range(t.views) :
                    v.id = x.view /\ v.connection = x.connection /\ v.filter = x.filter
    <3>1. x \in Range(s.mapSources)
      BY <2>1
    <3>2. /\ x.kind = "geojson" /\ x.filter # None
          /\ \E v \in Range(s.views) :
               v.id = x.view /\ v.connection = x.connection /\ v.filter = x.filter
      BY <1>1, <2>1, <3>1 DEF ViewsAreFollowed
    <3>3. PICK v \in Range(s.views) :
               v.id = x.view /\ v.connection = x.connection /\ v.filter = x.filter
      BY <3>2
    <3>4. v \in Range(t.views)
      BY <2>1, <3>3
    <3> QED
      BY <3>2, <3>3, <3>4
  <2> QED
    BY <2>1 DEF ViewsAreFollowed
<1>7. DOMAIN t = DOMAIN EmptyStore
  BY RangeLeft
<1> QED
  BY <1>1, <1>2, <1>3, <1>4, <1>5, <1>6, <1>7 DEF StoreSound, StateFits, ReferencesStand

(* A source goes with its last layer.                                      *)
LEMMA RemoveMapLayerKeeps ==
  ASSUME NEW s, StoreSound(s), NEW id
  PROVE  /\ StoreSound(RemoveMapLayer(s, id))
         /\ Range(RemoveMapLayer(s, id).mapLayers) = {y \in Range(s.mapLayers) : y.id # id}
<1> DEFINE t == RemoveMapLayer(s, id)
           l == s.mapLayers
           source == Get(l, id).source
           rest == Only(l, {y \in Range(l) : y.id # id})
           fewer == Only(s.mapSources, {x \in Range(s.mapSources) : x.id # source})
<1>1. CASE ~Has(l, id)
  <2>1. t = s
    BY <1>1 DEF RemoveMapLayer
  <2>2. \A y \in Range(l) : y.id # id
    BY <1>1, IdsOf
  <2> QED
    BY <2>1, <2>2
<1>2. CASE Has(l, id)
  <2>1. /\ ListFits(l) /\ ListFits(s.mapSources) /\ ListFits(s.views) /\ s.made \in Nat
        /\ ConnectionsFit(s) /\ SelectionStands(s) /\ SourcesHaveLayers(s)
    BY RangeLeft DEF StoreSound, StateFits, ReferencesStand
  <2>2. /\ DOMAIN t = DOMAIN s /\ t.made = s.made
        /\ t.connections = s.connections /\ t.selected = s.selected /\ t.views = s.views
        /\ t.mapLayers = rest
        /\ t.mapSources = IF \E i \in DOMAIN rest : rest[i].source = source THEN s.mapSources
                          ELSE fewer
    BY <1>2 DEF RemoveMapLayer, StoreSound, StateFits, EmptyStore
  <2>3. ListFits(rest) /\ Range(rest) = Range(l) \cap {y \in Range(l) : y.id # id}
    BY <2>1, OnlyFits
  <2>4. /\ ListFits(fewer)
        /\ Range(fewer) = Range(s.mapSources) \cap {x \in Range(s.mapSources) : x.id # source}
    BY <2>1, OnlyFits
  <2>5. Get(l, id) \in Range(l) /\ Get(l, id).id = id
    BY <1>2, GetOf
  <2>6. \A y \in Range(l) : y.id = id => y.source = source
    BY <2>1, <2>5, OneOfEach
  <2> HIDE DEF rest, fewer, source, t
  <2>7. (\E i \in DOMAIN rest : rest[i].source = source) <=> \E y \in Range(rest) : y.source = source
    BY DEF Range
  <2>8. /\ ListFits(t.mapSources) /\ Range(t.mapSources) \subseteq Range(s.mapSources)
        /\ \A x \in Range(s.mapSources) : x.id # source => x \in Range(t.mapSources)
        /\ (\E y \in Range(rest) : y.source = source) => t.mapSources = s.mapSources
        /\ ~(\E y \in Range(rest) : y.source = source) =>
             \A x \in Range(t.mapSources) : x.id # source
    BY <2>1, <2>2, <2>4, <2>7
  <2>9. \A y \in Range(rest), x \in Range(s.mapSources) : x.id = y.source => x \in Range(t.mapSources)
    BY <2>8
  <2>10. SourcesHaveLayers(t)
    <3>1. ASSUME NEW x \in Range(t.mapSources) PROVE \E y \in Range(rest) : y.source = x.id
      <4>1. PICK y \in Range(l) : y.source = x.id
        BY <2>1, <2>8, <3>1 DEF SourcesHaveLayers, l
      <4>2. CASE y.id = id
        BY <2>6, <2>8, <3>1, <4>1, <4>2
      <4>3. CASE y.id # id
        BY <2>3, <4>1, <4>3
      <4> QED
        BY <4>2, <4>3
    <3> QED
      BY <2>2, <3>1 DEF SourcesHaveLayers
  <2>11. ConnectionsFit(t) /\ SelectionStands(t)
    BY <2>1, <2>2 DEF ConnectionsFit, SelectionStands
  <2>12. Range(rest) \subseteq Range(l)
    BY <2>3
  <2>13. StoreSound(t)
    BY <2>1, <2>2, <2>3, <2>8, <2>9, <2>10, <2>11, <2>12, FewerStand
  <2>14. Range(rest) = {y \in Range(l) : y.id # id}
    BY <2>3
  <2> QED
    BY <2>2, <2>13, <2>14 DEF t
<1> QED
  BY <1>1, <1>2

(* A connection takes its sources, its layers and its views with it.       *)
LEMMA RemoveConnectionKeeps ==
  ASSUME NEW s, StoreSound(s), NEW id
  PROVE  StoreSound(RemoveConnection(s, id))
<1> DEFINE t == RemoveConnection(s, id)
           next == Only(s.connections, {c \in Range(s.connections) : c.id # id})
           sources == Only(s.mapSources, {x \in Range(s.mapSources) : x.connection # id})
           layers == Only(s.mapLayers,
                          {y \in Range(s.mapLayers) : y.connection # id /\ Has(sources, y.source)})
           views == Only(s.views, {v \in Range(s.views) : v.connection # id})
<1>1. /\ ListFits(s.mapLayers) /\ ListFits(s.mapSources) /\ ListFits(s.views) /\ s.made \in Nat
      /\ ListFits(s.connections)
      /\ ConnectionsFit(s) /\ SelectionStands(s) /\ SourcesHaveLayers(s) /\ LayersHaveSources(s)
  BY RangeLeft DEF StoreSound, StateFits, ReferencesStand
<1>2. /\ DOMAIN t = DOMAIN s /\ t.made = s.made
      /\ t.connections = next /\ t.views = views /\ t.mapLayers = layers /\ t.mapSources = sources
      /\ t.selected = IF s.selected = id THEN First(next) ELSE s.selected
  BY DEF RemoveConnection, StoreSound, StateFits, EmptyStore
<1>3. /\ ListFits(next)
      /\ Range(next) = Range(s.connections) \cap {c \in Range(s.connections) : c.id # id}
  BY <1>1, OnlyFits
<1>4. /\ ListFits(sources)
      /\ Range(sources) = Range(s.mapSources) \cap {x \in Range(s.mapSources) : x.connection # id}
  BY <1>1, OnlyFits
<1>5. /\ ListFits(views)
      /\ Range(views) = Range(s.views) \cap {v \in Range(s.views) : v.connection # id}
  BY <1>1, OnlyFits
<1> HIDE DEF sources
<1>6. /\ ListFits(layers)
      /\ Range(layers) = Range(s.mapLayers) \cap
           {y \in Range(s.mapLayers) : y.connection # id /\ Has(sources, y.source)}
  BY <1>1, OnlyFits
<1> HIDE DEF t, next, layers, views
<1>7. ASSUME NEW y \in Range(layers), NEW x \in Range(s.mapSources), x.id = y.source
      PROVE  x \in Range(sources)
  <2>1. PICK z \in Range(sources) : z.id = y.source
    BY <1>6, <1>7, IdsOf
  <2> QED
    BY <1>1, <1>4, <1>7, <2>1, OneOfEach
<1>8. ASSUME NEW x \in Range(sources) PROVE \E y \in Range(layers) : y.source = x.id
  <2>1. x \in Range(s.mapSources) /\ x.connection # id
    BY <1>4, <1>8
  <2>2. PICK y \in Range(s.mapLayers) : y.source = x.id
    BY <1>1, <2>1 DEF SourcesHaveLayers
  <2>3. PICK z \in Range(s.mapSources) : z.id = y.source /\ z.connection = y.connection
    BY <1>1, <2>2 DEF LayersHaveSources
  <2>4. z = x
    BY <1>1, <2>1, <2>2, <2>3, OneOfEach
  <2>5. Has(sources, y.source)
    BY <1>8, <2>2, IdsOf
  <2> QED
    BY <1>6, <2>1, <2>2, <2>3, <2>4, <2>5
<1>9. SourcesHaveLayers(t)
  BY <1>2, <1>8 DEF SourcesHaveLayers
<1>10. ASSUME NEW x \in Range(sources), NEW v \in Range(s.views), v.connection = x.connection
       PROVE  v \in Range(views)
  BY <1>4, <1>5, <1>10
<1>11. ConnectionsFit(t)
  BY <1>1, <1>2, <1>3 DEF ConnectionsFit
<1>12. SelectionStands(t)
  <2>1. CASE s.connections = << >>
    <3>1. Range(s.connections) = {}
      BY <1>1, <2>1, ListBasics
    <3>2. next = << >>
      BY <1>3, <3>1, ListBasics
    <3>3. t.selected = None
      BY <1>1, <1>2, <2>1, <3>2 DEF SelectionStands, First
    <3> QED
      BY <1>2, <3>2, <3>3 DEF SelectionStands
  <2>2. CASE s.connections # << >>
    <3>1. Has(s.connections, s.selected)
      BY <1>1, <2>2 DEF SelectionStands
    <3>2. s.selected # id => Has(next, s.selected)
      <4>1. PICK c \in Range(s.connections) : c.id = s.selected
        BY <3>1, IdsOf
      <4>2. s.selected # id => c \in Range(next)
        BY <1>3, <4>1
      <4> QED
        BY <4>1, <4>2, IdsOf
    <3>3. ~Has(next, id)
      BY <1>3, IdsOf
    <3> DEFINE sel == s.selected
    <3>4. t.selected = IF Has(t.connections, sel) THEN sel ELSE First(t.connections)
      BY <1>2, <3>2, <3>3
    <3>5. ListFits(t.connections)
      BY <1>2, <1>3
    <3> HIDE DEF sel
    <3> QED
      BY <3>4, <3>5, FallsToFirst
  <2> QED
    BY <2>1, <2>2
<1>13. /\ Range(layers) \subseteq Range(s.mapLayers) /\ Range(sources) \subseteq Range(s.mapSources)
       /\ Range(views) \subseteq Range(s.views)
  BY <1>4, <1>5, <1>6
<1>14. StoreSound(t)
  BY <1>2, <1>4, <1>5, <1>6, <1>7, <1>9, <1>10, <1>11, <1>12, <1>13, FewerStand
<1> QED
  BY <1>14 DEF t

(* Layers that go one after the other.                                     *)
LeftUpTo(n, s, gone) ==
  \E g : g = [i \in 0..n |-> IF i = 0 THEN s ELSE RemoveMapLayer(g[i - 1], gone[i].id)]

(* There is the store that is left after n of them.                        *)
LEMMA LeftExist ==
  ASSUME NEW s, NEW gone, NEW n \in Nat
  PROVE  LeftUpTo(n, s, gone)
<1> DEFINE Next1(x, i) == RemoveMapLayer(x, gone[i].id)
           Good(m, g) == g = [i \in 0..m |-> IF i = 0 THEN s ELSE Next1(g[i - 1], i)]
           T == {m \in 0..n : \E g : Good(m, g)}
<1>0. ASSUME NEW g, Good(n, g) PROVE LeftUpTo(n, s, gone)
  BY <1>0 DEF LeftUpTo
<1> HIDE DEF Next1
<1>1. 0 \in T
  <2> DEFINE g == [i \in 0..0 |-> s]
  <2>1. \A i \in 0..0 : i = 0
    OBVIOUS
  <2>2. g = [i \in 0..0 |-> IF i = 0 THEN s ELSE Next1(g[i - 1], i)]
    BY <2>1
  <2>3. \E k : Good(0, k)
    BY <2>2
  <2> QED
    BY <2>3
<1>2. ASSUME NEW m \in 0..n, m + 1 \in 0..n, m \in T PROVE m + 1 \in T
  <2>1. PICK g : Good(m, g)
    BY <1>2
  <2> DEFINE h == [i \in 0..(m + 1) |-> IF i = m + 1 THEN Next1(g[m], m + 1) ELSE g[i]]
  <2>2. \A i \in 0..m : g[i] = IF i = 0 THEN s ELSE Next1(g[i - 1], i)
    BY <2>1
  <2>3. \A i \in 0..(m + 1) : h[i] = IF i = 0 THEN s ELSE Next1(h[i - 1], i)
    BY <2>2
  <2>4. Good(m + 1, h)
    <3>1. h = [i \in 0..(m + 1) |-> h[i]]
      OBVIOUS
    <3> HIDE DEF h
    <3> QED
      BY <2>3, <3>1
  <2> QED
    BY <1>2, <2>4
<1>3. T = 0..n
  <2> HIDE DEF T
  <2>1. T \in SUBSET (0..n)
    BY DEF T
  <2> QED
    BY <1>1, <1>2, <2>1, CountUp
<1>4. n \in T
  <2> HIDE DEF T
  <2> QED
    BY <1>3
<1>5. PICK g : Good(n, g)
  BY <1>4
<1> QED
  BY <1>0, <1>5

(* Each of them leaves a store that stands.                                *)
LEMMA RemoveMapLayersKeeps ==
  ASSUME NEW s, StoreSound(s), NEW gone, Len(gone) \in Nat
  PROVE  /\ StoreSound(RemoveMapLayers(s, gone))
         /\ RemoveMapLayers(s, gone).connections = s.connections
<1> DEFINE left[i \in 0..Len(gone)] ==
             IF i = 0 THEN s ELSE RemoveMapLayer(left[i - 1], gone[i].id)
           size == Len(gone)
<1>1. RemoveMapLayers(s, gone) = left[size]
  BY DEF RemoveMapLayers
<1>2. size \in Nat
  OBVIOUS
<1>3. left = [i \in 0..size |-> IF i = 0 THEN s ELSE RemoveMapLayer(left[i - 1], gone[i].id)]
  <2>1. left = CHOOSE g : g = [i \in 0..size |->
                 IF i = 0 THEN s ELSE RemoveMapLayer(g[i - 1], gone[i].id)]
    BY DEF left
  <2> HIDE DEF left, size
  <2>2. \E g : g = [i \in 0..size |-> IF i = 0 THEN s ELSE RemoveMapLayer(g[i - 1], gone[i].id)]
    <3>1. LeftUpTo(size, s, gone)
      BY <1>2, LeftExist
    <3> QED
      BY <3>1, Zenon DEF LeftUpTo
  <2> QED
    BY <2>1, <2>2, Zenon
<1> HIDE DEF left, size
<1>4. left[0] = s
  BY <1>2, <1>3
<1> DEFINE T == {m \in 0..size : StoreSound(left[m]) /\ left[m].connections = s.connections}
<1>5. 0 \in T
  BY <1>2, <1>4
<1>6. ASSUME NEW m \in 0..size, m + 1 \in 0..size, m \in T PROVE m + 1 \in T
  <2>1. m + 1 # 0 /\ (m + 1) - 1 = m
    BY <1>6
  <2>2. left[m + 1] = RemoveMapLayer(left[m], gone[m + 1].id)
    BY <1>3, <1>6, <2>1
  <2>3. StoreSound(left[m]) /\ left[m].connections = s.connections
    BY <1>6
  <2>4. StoreSound(left[m + 1])
    BY <2>2, <2>3, RemoveMapLayerKeeps
  <2>5. left[m + 1].connections = left[m].connections
    BY <2>2 DEF RemoveMapLayer
  <2> QED
    BY <1>6, <2>3, <2>4, <2>5
<1>7. T = 0..size
  <2> HIDE DEF T
  <2>1. T \in SUBSET (0..size)
    BY DEF T
  <2> QED
    BY <1>2, <1>5, <1>6, <2>1, CountUp
<1>8. StoreSound(left[size]) /\ left[size].connections = s.connections
  <2>1. size \in 0..size
    BY <1>2
  <2>2. size \in T
    <3> HIDE DEF T
    <3> QED
      BY <1>7, <2>1
  <2> QED
    BY <2>2
<1> QED
  BY <1>1, <1>8

-----------------------------------------------------------------------------
(***************************************************************************)
(* Saved views.                                                            *)
(***************************************************************************)
LEMMA AddViewKeeps ==
  ASSUME NEW s, StoreSound(s), NEW v
  PROVE  StoreSound(AddSavedTableView(s, v))
<1> DEFINE t == AddSavedTableView(s, v)
           w == [id |-> s.made + 1, connection |-> v.connection, table |-> v.table,
                 filter |-> v.filter]
<1>1. /\ s.made \in Nat /\ ViewsFit(s) /\ ListFits(s.views) /\ ConnectionsFit(s) /\ SourcesFit(s)
      /\ LayersFit(s, {}) /\ SelectionStands(s) /\ LayersHaveSources(s) /\ SourcesHaveLayers(s)
      /\ TypesFollowColumns(s) /\ ViewsAreFollowed(s)
  BY DEF StoreSound, StateFits, ViewsFit, ReferencesStand
<1>2. /\ DOMAIN t = DOMAIN s /\ t.made = s.made + 1 /\ t.views = <<w>> \o s.views
      /\ t.connections = s.connections /\ t.selected = s.selected
      /\ t.mapLayers = s.mapLayers /\ t.mapSources = s.mapSources
  BY DEF AddSavedTableView, StoreSound, StateFits, EmptyStore
<1>3. DOMAIN w = {"id", "connection", "table", "filter"} /\ w.id = s.made + 1
  OBVIOUS
<1> HIDE DEF t, w
<1>4. \A x \in Range(s.views) : w.id # x.id
  BY <1>1, <1>3 DEF ViewsFit
<1>5. ListFits(<<w>>) /\ Range(<<w>>) = {w}
  BY SingleFits
<1>6. ListFits(t.views) /\ Range(t.views) = {w} \cup Range(s.views)
  BY <1>1, <1>2, <1>4, <1>5, ConcatFits
<1>7. s.made <= t.made /\ t.made \in Nat /\ s.made + 1 \in 1..t.made
  <2>1. t.made = s.made + 1
    BY <1>2
  <2> QED
    BY <1>1, <2>1
<1>8. ViewsFit(t)
  BY <1>1, <1>3, <1>6, <1>7 DEF ViewsFit
<1>9. ConnectionsFit(t) /\ SourcesFit(t) /\ LayersFit(t, {})
  BY <1>1, <1>2, <1>7, ConnectionsLeft, SourcesLeft, LayersLeft
<1>10. SelectionStands(t) /\ LayersHaveSources(t) /\ SourcesHaveLayers(t) /\ TypesFollowColumns(t)
  BY <1>1, <1>2 DEF SelectionStands, LayersHaveSources, SourcesHaveLayers, TypesFollowColumns
<1>11. ViewsAreFollowed(t)
  BY <1>1, <1>2, <1>6 DEF ViewsAreFollowed
<1>12. DOMAIN t = DOMAIN EmptyStore
  BY <1>2, RangeLeft
<1>13. StoreSound(t)
  BY <1>7, <1>8, <1>9, <1>10, <1>11, <1>12 DEF StoreSound, StateFits, ReferencesStand
<1> QED
  BY <1>13 DEF t

(* The sources of a view take its new filter.                              *)
LEMMA UpdateViewKeeps ==
  ASSUME NEW s, StoreSound(s), NEW id, NEW f \in FilterTerms
  PROVE  StoreSound(UpdateSavedTableView(s, id, f))
<1>1. CASE ~Has(s.views, id)
  BY <1>1 DEF UpdateSavedTableView
<1>2. CASE Has(s.views, id)
  <2> DEFINE t == UpdateSavedTableView(s, id, f)
             l == s.mapSources
             vs == s.views
             before == Get(s.views, id)
  <2>1. /\ s.made \in Nat /\ ViewsFit(s) /\ ListFits(s.views) /\ ViewsAreFollowed(s)
    BY DEF StoreSound, StateFits, ViewsFit, ReferencesStand
  <2>2. before \in Range(vs) /\ before.id = id /\ DOMAIN before = {"id", "connection", "table", "filter"}
    BY <1>2, <2>1, GetOf DEF ViewsFit
  <2>3. /\ DOMAIN t = DOMAIN s /\ t.made = s.made + 1
        /\ t.connections = s.connections /\ t.selected = s.selected /\ t.mapLayers = s.mapLayers
        /\ t.views = [i \in DOMAIN vs |-> IF vs[i].id = id THEN [vs[i] EXCEPT !.filter = f] ELSE vs[i]]
        /\ t.mapSources =
             [i \in DOMAIN l |-> IF l[i].kind = "geojson" /\ LinkedToView(l[i], before)
                                 THEN [Touch(s, l[i]) EXCEPT !.filter = f, !.view = id] ELSE l[i]]
    BY <1>2 DEF UpdateSavedTableView, StoreSound, StateFits, EmptyStore, Mapped
  <2>4. \A i \in DOMAIN l :
           /\ DOMAIN l[i] = SourceFields /\ l[i] \in Range(l)
           /\ l[i].kind = "geojson" => l[i].type = GeometryOf[l[i].table][l[i].column]
    BY SourceAt
  <2>5. f # None /\ None \notin Int
    BY StoreConstants
  <2> HIDE DEF t, before, l, vs
  <2>6. /\ s.made <= t.made /\ t.made \in Nat
    <3>1. t.made = s.made + 1
      BY <2>3
    <3> QED
      BY <2>1, <3>1
  <2>7. ASSUME NEW i \in DOMAIN vs
        PROVE  /\ DOMAIN t.views[i] = {"id", "connection", "table", "filter"}
               /\ t.views[i].id = vs[i].id /\ t.views[i].connection = vs[i].connection
               /\ t.views[i].filter = IF vs[i].id = id THEN f ELSE vs[i].filter
               /\ vs[i].id \in 1..s.made /\ vs[i] \in Range(vs)
    <3> DEFINE v == vs[i]
               w == t.views[i]
    <3>1. v \in Range(vs) /\ DOMAIN v = {"id", "connection", "table", "filter"} /\ v.id \in 1..s.made
      BY <2>1, <2>7 DEF ViewsFit, Range, vs
    <3>2. w = IF v.id = id THEN [v EXCEPT !.filter = f] ELSE v
      BY <2>3, <2>7
    <3> HIDE DEF v, w
    <3>3. /\ DOMAIN w = {"id", "connection", "table", "filter"}
          /\ w.id = v.id /\ w.connection = v.connection
          /\ w.filter = IF v.id = id THEN f ELSE v.filter
      BY <3>1, <3>2
    <3> QED
      BY <3>1, <3>3 DEF v, w
  <2>8. /\ ListFits(t.views)
        /\ \A x \in Range(t.views) : \E i \in DOMAIN vs : x = t.views[i]
        /\ \A i \in DOMAIN vs : t.views[i] \in Range(t.views)
    <3>1. Renewed(t.views, vs)
      <4>1. t.views = [i \in DOMAIN vs |-> t.views[i]]
        BY <2>3
      <4> QED
        BY <2>7, <4>1 DEF Renewed
    <3> QED
      BY <2>1, <3>1, ChangeFits DEF vs
  <2>9. ViewsFit(t)
    <3>1. ASSUME NEW x \in Range(t.views)
          PROVE  DOMAIN x = {"id", "connection", "table", "filter"} /\ x.id \in 1..t.made
      <4>1. PICK i \in DOMAIN vs : x = t.views[i]
        BY <2>8
      <4> QED
        BY <2>1, <2>6, <2>7, <4>1
    <3> QED
      BY <2>8, <3>1 DEF ViewsFit
  <2>10. ASSUME NEW i \in DOMAIN l
         PROVE  LET x == l[i]
                    z == t.mapSources[i]
                IN /\ DOMAIN z = SourceFields /\ z.id = x.id /\ z.kind = x.kind
                   /\ z.connection = x.connection
                   /\ z.kind = "geojson" => z.type = GeometryOf[z.table][z.column]
                   /\ IF x.kind = "geojson" /\ LinkedToView(x, before)
                      THEN z.filter = f /\ z.view = id
                      ELSE z.filter = x.filter /\ z.view = x.view
    <3> DEFINE x == l[i]
               z == t.mapSources[i]
    <3>1. /\ DOMAIN x = SourceFields
          /\ x.kind = "geojson" => x.type = GeometryOf[x.table][x.column]
      BY <2>4, <2>10
    <3>2. z = IF x.kind = "geojson" /\ LinkedToView(x, before)
              THEN [Touch(s, x) EXCEPT !.filter = f, !.view = id] ELSE x
      BY <2>3, <2>10
    <3> HIDE DEF x, z
    <3>3. /\ DOMAIN z = SourceFields /\ z.id = x.id /\ z.kind = x.kind
          /\ z.connection = x.connection
          /\ z.kind = "geojson" => z.type = GeometryOf[z.table][z.column]
          /\ IF x.kind = "geojson" /\ LinkedToView(x, before)
             THEN z.filter = f /\ z.view = id
             ELSE z.filter = x.filter /\ z.view = x.view
      BY <3>1, <3>2 DEF Touch, SourceFields
    <3> QED
      BY <3>3 DEF x, z
  <2>11. ViewsAreFollowed(t)
    <3>1. ASSUME NEW z \in Range(t.mapSources), z.view # None
          PROVE  /\ z.kind = "geojson" /\ z.filter # None
                 /\ \E v \in Range(t.views) :
                      v.id = z.view /\ v.connection = z.connection /\ v.filter = z.filter
      <4>1. PICK i \in DOMAIN l : z = t.mapSources[i]
        BY <2>3, <3>1 DEF Range
      <4> DEFINE x == l[i]
      <4>2. /\ z.kind = x.kind /\ z.connection = x.connection
            /\ IF x.kind = "geojson" /\ LinkedToView(x, before)
               THEN z.filter = f /\ z.view = id
               ELSE z.filter = x.filter /\ z.view = x.view
        BY <2>10, <4>1
      <4>3. x.view # None =>
              /\ x.kind = "geojson" /\ x.filter # None
              /\ \E v \in Range(vs) :
                   v.id = x.view /\ v.connection = x.connection /\ v.filter = x.filter
        BY <2>1, <2>4, <4>1 DEF ViewsAreFollowed, l, vs
      <4> HIDE DEF x
      <4>4. CASE x.kind = "geojson" /\ LinkedToView(x, before)
        <5>1. x.connection = before.connection
          <6>1. CASE x.view = before.id
            <7>1. x.view # None
              BY <2>1, <2>2, <2>5, <6>1 DEF ViewsFit, vs
            <7>2. PICK v \in Range(vs) : v.id = x.view /\ v.connection = x.connection
              BY <4>3, <7>1
            <7>3. v = before
              BY <2>1, <2>2, <6>1, <7>2, OneOfEach DEF vs
            <7> QED
              BY <7>2, <7>3
          <6> QED
            BY <4>4, <6>1 DEF LinkedToView
        <5>2. PICK j \in DOMAIN vs : vs[j] = before
          BY <2>2 DEF Range
        <5>3. /\ t.views[j] \in Range(t.views) /\ t.views[j].id = id
              /\ t.views[j].connection = x.connection /\ t.views[j].filter = f
          BY <2>2, <2>7, <2>8, <5>1, <5>2
        <5> QED
          BY <2>5, <4>2, <4>4, <5>3
      <4>5. CASE ~(x.kind = "geojson" /\ LinkedToView(x, before))
        <5>1. PICK v \in Range(vs) :
                v.id = x.view /\ v.connection = x.connection /\ v.filter = x.filter
          BY <3>1, <4>2, <4>3, <4>5
        <5>2. PICK j \in DOMAIN vs : vs[j] = v
          BY DEF Range
        <5>3. v.id # id
          BY <2>2, <3>1, <4>2, <4>3, <4>5, <5>1 DEF LinkedToView
        <5> QED
          BY <2>7, <2>8, <3>1, <4>2, <4>3, <4>5, <5>1, <5>2, <5>3
      <4> QED
        BY <4>4, <4>5
    <3> QED
      BY <3>1 DEF ViewsAreFollowed
  <2>12. t.mapSources = [i \in DOMAIN l |-> t.mapSources[i]]
    BY <2>3
  <2>13. StoreSound(t)
    BY <2>3, <2>6, <2>9, <2>10, <2>11, <2>12, SourcesChanged DEF l
  <2> QED
    BY <2>13 DEF t
<1> QED
  BY <1>1, <1>2

(* A view that is deleted leaves no source that is its own.                *)
LEMMA RemoveViewKeeps ==
  ASSUME NEW s, StoreSound(s), NEW id
  PROVE  StoreSound(RemoveSavedTableView(s, id))
<1>1. CASE ~Has(s.views, id)
  BY <1>1 DEF RemoveSavedTableView
<1>2. CASE Has(s.views, id)
  <2> DEFINE t == RemoveSavedTableView(s, id)
             l == s.mapSources
             vs == s.views
             before == Get(s.views, id)
             kept == Only(s.views, {v \in Range(s.views) : v.id # id})
  <2>1. /\ s.made \in Nat /\ ViewsFit(s) /\ ListFits(s.views) /\ ViewsAreFollowed(s)
    BY DEF StoreSound, StateFits, ViewsFit, ReferencesStand
  <2>2. before.id = id
    BY <1>2, GetOf
  <2>3. /\ DOMAIN t = DOMAIN s /\ t.made = s.made + 1
        /\ t.connections = s.connections /\ t.selected = s.selected /\ t.mapLayers = s.mapLayers
        /\ t.views = kept
        /\ t.mapSources =
             [i \in DOMAIN l |-> IF l[i].kind = "geojson" /\ LinkedToView(l[i], before)
                                 THEN [Touch(s, l[i]) EXCEPT !.view = None] ELSE l[i]]
    BY <1>2 DEF RemoveSavedTableView, StoreSound, StateFits, EmptyStore, Mapped
  <2>4. \A i \in DOMAIN l :
           /\ DOMAIN l[i] = SourceFields /\ l[i] \in Range(l)
           /\ l[i].kind = "geojson" => l[i].type = GeometryOf[l[i].table][l[i].column]
    BY SourceAt
  <2>5. ListFits(kept) /\ Range(kept) = {v \in Range(s.views) : v.id # id}
    BY <2>1, OnlyFits
  <2> HIDE DEF t, before, l, vs, kept
  <2>6. /\ s.made <= t.made /\ t.made \in Nat
    <3>1. t.made = s.made + 1
      BY <2>3
    <3> QED
      BY <2>1, <3>1
  <2>7. ViewsFit(t)
    <3>1. \A i \in 1..s.made : i \in 1..t.made
      BY <2>1, <2>6
    <3> QED
      BY <2>1, <2>3, <2>5, <3>1 DEF ViewsFit
  <2>8. ASSUME NEW i \in DOMAIN l
        PROVE  LET x == l[i]
                   z == t.mapSources[i]
               IN /\ DOMAIN z = SourceFields /\ z.id = x.id /\ z.kind = x.kind
                  /\ z.connection = x.connection
                  /\ z.kind = "geojson" => z.type = GeometryOf[z.table][z.column]
                  /\ z.filter = x.filter
                  /\ z.view = IF x.kind = "geojson" /\ LinkedToView(x, before) THEN None ELSE x.view
    <3> DEFINE x == l[i]
               z == t.mapSources[i]
    <3>1. /\ DOMAIN x = SourceFields
          /\ x.kind = "geojson" => x.type = GeometryOf[x.table][x.column]
      BY <2>4, <2>8
    <3>2. z = IF x.kind = "geojson" /\ LinkedToView(x, before)
              THEN [Touch(s, x) EXCEPT !.view = None] ELSE x
      BY <2>3, <2>8
    <3> HIDE DEF x, z
    <3>3. /\ DOMAIN z = SourceFields /\ z.id = x.id /\ z.kind = x.kind
          /\ z.connection = x.connection
          /\ z.kind = "geojson" => z.type = GeometryOf[z.table][z.column]
          /\ z.filter = x.filter
          /\ z.view = IF x.kind = "geojson" /\ LinkedToView(x, before) THEN None ELSE x.view
      BY <3>1, <3>2 DEF Touch, SourceFields
    <3> QED
      BY <3>3 DEF x, z
  <2>9. ViewsAreFollowed(t)
    <3>1. ASSUME NEW z \in Range(t.mapSources), z.view # None
          PROVE  /\ z.kind = "geojson" /\ z.filter # None
                 /\ \E v \in Range(t.views) :
                      v.id = z.view /\ v.connection = z.connection /\ v.filter = z.filter
      <4>1. PICK i \in DOMAIN l : z = t.mapSources[i]
        BY <2>3, <3>1 DEF Range
      <4> DEFINE x == l[i]
      <4>2. /\ z.kind = x.kind /\ z.connection = x.connection /\ z.filter = x.filter
            /\ z.view = IF x.kind = "geojson" /\ LinkedToView(x, before) THEN None ELSE x.view
        BY <2>8, <4>1
      <4>3. x.view # None =>
              /\ x.kind = "geojson" /\ x.filter # None
              /\ \E v \in Range(vs) :
                   v.id = x.view /\ v.connection = x.connection /\ v.filter = x.filter
        BY <2>1, <2>4, <4>1 DEF ViewsAreFollowed, l, vs
      <4> HIDE DEF x
      <4>4. z.view = x.view /\ ~LinkedToView(x, before) /\ x.kind = "geojson" /\ x.filter # None
        BY <3>1, <4>2, <4>3
      <4>5. PICK v \in Range(vs) :
              v.id = x.view /\ v.connection = x.connection /\ v.filter = x.filter
        BY <3>1, <4>3, <4>4
      <4>6. v.id # id
        BY <2>2, <4>4, <4>5 DEF LinkedToView
      <4>7. v \in Range(t.views)
        BY <2>3, <2>5, <4>5, <4>6 DEF vs
      <4> QED
        BY <4>2, <4>4, <4>5, <4>7
    <3> QED
      BY <3>1 DEF ViewsAreFollowed
  <2>10. t.mapSources = [i \in DOMAIN l |-> t.mapSources[i]]
    BY <2>3
  <2>11. StoreSound(t)
    BY <2>3, <2>6, <2>7, <2>8, <2>9, <2>10, SourcesChanged DEF l
  <2> QED
    BY <2>11 DEF t
<1> QED
  BY <1>1, <1>2

-----------------------------------------------------------------------------
(***************************************************************************)
(* Layers that are added, one by one or as an earlier page left them.      *)
(***************************************************************************)

(* A source that a layer of a kind may draw for a payload.                 *)
Suits(x, kind, p) ==
  x.kind = (IF kind = "geojson" THEN "geojson" ELSE "flowmap") /\ x.connection = p.connection

(* A new source, of no view.                                               *)
Fresh(x, made) ==
  /\ DOMAIN x = SourceFields /\ x.id = made + 1 /\ x.view = None
  /\ x.kind = "geojson" => x.type = GeometryOf[x.table][x.column]

(* What is drawn stands, whatever is selected.                             *)
DrawnSound(s) ==
  /\ DOMAIN s = DOMAIN EmptyStore /\ s.made \in Nat
  /\ SourcesFit(s) /\ LayersFit(s, {}) /\ ReferencesStand(s)

(* The source of a new layer is one that was there or a new one.           *)
LEMMA SourcesGrow ==
  ASSUME NEW s, DrawnSound(s), NEW t, t.made \in Nat, s.made < t.made, t.views = s.views,
         NEW found, NEW fresh, NEW kind \in {"geojson", "flowmap", "arc"}, NEW p, NEW x,
         found # << >> => x \in Range(s.mapSources), found = << >> => x = fresh,
         Suits(x, kind, p), Fresh(fresh, s.made), fresh.kind \in {"geojson", "flowmap"},
         t.mapSources = IF found = << >> THEN Append(s.mapSources, fresh) ELSE s.mapSources
  PROVE  /\ Range(t.mapSources) = Range(s.mapSources) \cup {x}
         /\ SourcesFit(t) /\ TypesFollowColumns(t) /\ ViewsAreFollowed(t)
<1> DEFINE l == s.mapSources
           m == t.mapSources
<1>1. /\ s.made \in Nat /\ ListFits(l) /\ SourcesFit(s) /\ TypesFollowColumns(s)
      /\ ViewsAreFollowed(s)
  BY DEF DrawnSound, SourcesFit, ReferencesStand
<1>2. \A i \in 1..s.made : i \in 1..t.made
  BY <1>1
<1>3. s.made + 1 \in 1..t.made /\ s.made + 1 \notin 1..s.made
  BY <1>1
<1>4. ListFits(m) /\ Range(m) = Range(l) \cup {x}
  <2>1. CASE found = << >>
    <3>1. \A z \in Range(l) : z.id # fresh.id
      BY <1>1, <1>3 DEF SourcesFit, Fresh
    <3>2. m = Append(l, fresh)
      BY <2>1
    <3> QED
      BY <1>1, <2>1, <3>1, <3>2, AppendFits
  <2>2. CASE found # << >>
    BY <1>1, <2>2
  <2> QED
    BY <2>1, <2>2
<1>5. x \in Range(l) \/ x = fresh
  OBVIOUS
<1>6. SourcesFit(t)
  <2>1. ASSUME NEW z \in Range(m)
        PROVE  DOMAIN z = SourceFields /\ z.id \in 1..t.made /\ z.kind \in {"geojson", "flowmap"}
    <3>1. CASE z \in Range(l)
      BY <1>1, <1>2, <3>1 DEF SourcesFit
    <3>2. CASE z = fresh
      BY <1>3, <3>2 DEF Fresh
    <3> QED
      BY <1>4, <1>5, <2>1, <3>1, <3>2
  <2> QED
    BY <1>4, <2>1 DEF SourcesFit
<1>7. TypesFollowColumns(t)
  BY <1>1, <1>4, <1>5 DEF TypesFollowColumns, Fresh
<1>8. ViewsAreFollowed(t)
  BY <1>1, <1>4, <1>5 DEF ViewsAreFollowed, Fresh
<1> QED
  BY <1>4, <1>6, <1>7, <1>8

(* The layer is a new one or the one of the source, made visible.          *)
Grown(m, l, old, y) ==
  m = IF old = << >> THEN Append(l, y)
      ELSE [i \in DOMAIN l |->
              IF l[i].id = old[1].id THEN [l[i] EXCEPT !.visible = TRUE] ELSE l[i]]

(* The layer of the source is shown again, or one is added.                *)
LEMMA LayersGrow ==
  ASSUME NEW s, StoreSound(s), NEW old, NEW y, NEW m, NEW src,
         ListFits(old), Range(old) \subseteq {z \in Range(s.mapLayers) : z.source = src},
         SameLayer(y, y), y.id = s.made + 2, y.source = src,
         Grown(m, s.mapLayers, old, y)
  PROVE  /\ ListFits(m)
         /\ \A z \in Range(m) : z = y \/ \E w \in Range(s.mapLayers) : SameLayer(z, w)
         /\ \A w \in Range(s.mapLayers) : \E z \in Range(m) : z.source = w.source
         /\ \E z \in Range(m) : z.source = src
<1> DEFINE l == s.mapLayers
<1>1. /\ s.made \in Nat /\ ListFits(l) /\ LayersFit(s, {})
  BY DEF StoreSound, StateFits, LayersFit
<1>2. \A i \in DOMAIN l : l[i] \in Range(l) /\ SameLayer(l[i], l[i])
  BY LayerAt
<1>3. CASE old = << >>
  <2>1. \A z \in Range(l) : z.id # y.id
    <3>1. s.made + 2 \notin 1..s.made
      BY <1>1
    <3> QED
      BY <1>1, <3>1 DEF LayersFit
  <2>2. m = Append(l, y)
    BY <1>3 DEF Grown
  <2>3. ListFits(m) /\ Range(m) = Range(l) \cup {y}
    BY <1>1, <2>1, <2>2, AppendFits
  <2>4. \A z \in Range(l) : SameLayer(z, z)
    BY <1>2 DEF Range
  <2> QED
    BY <2>3, <2>4
<1>4. CASE old # << >>
  <2> DEFINE first == old[1]
  <2>1. first \in Range(l) /\ first.source = src
    BY <1>4, ListBasics
  <2>2. m = [i \in DOMAIN l |-> IF l[i].id = first.id THEN [l[i] EXCEPT !.visible = TRUE] ELSE l[i]]
    BY <1>4 DEF Grown
  <2> HIDE DEF first, l
  <2>3. ASSUME NEW i \in DOMAIN l PROVE SameLayer(m[i], l[i]) /\ m[i].id = l[i].id
    <3> DEFINE w == l[i]
               z == m[i]
    <3>1. SameLayer(w, w)
      BY <1>2, <2>3
    <3>2. z = IF w.id = first.id THEN [w EXCEPT !.visible = TRUE] ELSE w
      BY <2>2, <2>3
    <3> HIDE DEF w, z
    <3>3. SameLayer(z, w) /\ z.id = w.id
      BY <3>1, <3>2 DEF SameLayer, LayerFields
    <3> QED
      BY <3>3 DEF w, z
  <2>4. Renewed(m, l)
    <3>1. m = [i \in DOMAIN l |-> m[i]]
      BY <2>2
    <3> QED
      BY <2>3, <3>1 DEF Renewed
  <2>5. /\ ListFits(m)
        /\ \A z \in Range(m) : \E i \in DOMAIN l : z = m[i]
        /\ \A i \in DOMAIN l : m[i] \in Range(m) /\ l[i] \in Range(l)
    BY <1>1, <2>4, ChangeFits
  <2>6. \A w \in Range(l) : \E i \in DOMAIN l : w = l[i]
    BY DEF Range
  <2>7. \A w \in Range(l) : \E z \in Range(m) : z.source = w.source
    BY <2>3, <2>5, <2>6 DEF SameLayer
  <2>8. \A z \in Range(m) : \E w \in Range(l) : SameLayer(z, w)
    BY <2>3, <2>5
  <2> QED
    BY <2>1, <2>5, <2>7, <2>8 DEF l
<1> QED
  BY <1>3, <1>4

(* A layer is added to a store with its source, or its source's is shown.  *)
LEMMA LayeredKeeps ==
  ASSUME NEW s, StoreSound(s), NEW found, ListFits(found), Range(found) \subseteq Range(s.mapSources),
         NEW fresh, NEW p, NEW kind \in {"geojson", "flowmap", "arc"}, NEW icon, NEW style,
         \A x \in Range(found) : Suits(x, kind, p),
         Suits(fresh, kind, p), Fresh(fresh, s.made), p.purpose \in {"configured", "record-preview"},
         DOMAIN style = DOMAIN StyleOf(kind, 0)
  PROVE  StoreSound(Layered(s, found, fresh, p, kind, icon, style))
<1> DEFINE t == Layered(s, found, fresh, p, kind, icon, style)
           x == IF found = << >> THEN fresh ELSE found[1]
           old == Only(s.mapLayers, {z \in Range(s.mapLayers) : z.kind = kind /\ z.source = x.id})
           y == [id |-> s.made + 2, kind |-> kind, connection |-> p.connection, source |-> x.id,
                 name |-> p.name, visible |-> TRUE, tooltip |-> TRUE, icon |-> icon,
                 purpose |-> p.purpose, style |-> style]
           src == x.id
<1>1. /\ s.made \in Nat /\ ListFits(s.mapLayers) /\ ListFits(s.mapSources) /\ LayersFit(s, {})
      /\ LayersHaveSources(s) /\ SourcesHaveLayers(s) /\ ConnectionsFit(s) /\ ViewsFit(s)
      /\ SelectionStands(s)
  BY DEF StoreSound, StateFits, LayersFit, SourcesFit, ReferencesStand
<1>2. /\ found = << >> => x = fresh
      /\ found # << >> => x \in Range(found)
  BY ListBasics
<1>3. Suits(x, kind, p) /\ (found # << >> => x \in Range(s.mapSources))
  BY <1>2
<1>4. /\ DOMAIN t = DOMAIN s /\ t.made = s.made + 2
      /\ t.connections = s.connections /\ t.selected = s.selected /\ t.views = s.views
      /\ t.mapSources = IF found = << >> THEN Append(s.mapSources, fresh) ELSE s.mapSources
      /\ Grown(t.mapLayers, s.mapLayers, old, y)
  BY DEF Layered, StoreSound, StateFits, EmptyStore, Mapped, Grown
<1>5. SameLayer(y, y) /\ y.id = s.made + 2 /\ y.source = src /\ y.kind = kind
      /\ y.connection = p.connection
  BY DEF SameLayer, LayerFields
<1>6. ListFits(old) /\ Range(old) \subseteq {z \in Range(s.mapLayers) : z.source = src}
  BY <1>1, OnlyFits
<1>7. x.kind \in {"geojson", "flowmap"} /\ fresh.kind \in {"geojson", "flowmap"}
  BY <1>3 DEF Suits
<1> HIDE DEF t, x, old, y
<1>8. s.made < t.made /\ s.made <= t.made /\ t.made \in Nat /\ s.made + 2 \in 1..t.made
  <2>1. t.made = s.made + 2
    BY <1>4
  <2> QED
    BY <1>1, <2>1
<1>9. /\ Range(t.mapSources) = Range(s.mapSources) \cup {x}
      /\ SourcesFit(t) /\ TypesFollowColumns(t) /\ ViewsAreFollowed(t)
  <2>1. DrawnSound(s)
    BY DEF StoreSound, StateFits, DrawnSound
  <2> QED
    BY <1>2, <1>3, <1>4, <1>7, <1>8, <2>1, SourcesGrow
<1>10. /\ ListFits(t.mapLayers)
       /\ \A z \in Range(t.mapLayers) : z = y \/ \E w \in Range(s.mapLayers) : SameLayer(z, w)
       /\ \A w \in Range(s.mapLayers) : \E z \in Range(t.mapLayers) : z.source = w.source
       /\ \E z \in Range(t.mapLayers) : z.source = src
  <2> HIDE DEF src
  <2> QED
    BY <1>4, <1>5, <1>6, LayersGrow
<1>11. LayersFit(t, {})
  <2>1. \A i \in 1..s.made : i \in 1..t.made
    BY <1>1, <1>8
  <2>2. ASSUME NEW z \in Range(t.mapLayers)
        PROVE  SameLayer(z, z) /\ z.id \in 1..t.made /\ z.kind \in {"geojson", "flowmap", "arc"}
    <3>1. CASE z = y
      BY <1>5, <1>8, <3>1
    <3>2. CASE \E w \in Range(s.mapLayers) : SameLayer(z, w)
      <4>1. PICK w \in Range(s.mapLayers) : SameLayer(z, w)
        BY <3>2
      <4>2. w.id \in 1..s.made /\ w.kind \in {"geojson", "flowmap", "arc"}
        BY <1>1 DEF LayersFit
      <4> QED
        BY <2>1, <4>1, <4>2 DEF SameLayer
    <3> QED
      BY <1>10, <3>1, <3>2
  <2> QED
    BY <1>10, <2>2 DEF LayersFit, SameLayer
<1>12. LayersHaveSources(t)
  <2>1. ASSUME NEW z \in Range(t.mapLayers)
        PROVE  \E v \in Range(t.mapSources) :
                 /\ v.id = z.source /\ v.connection = z.connection
                 /\ v.kind = IF z.kind = "geojson" THEN "geojson" ELSE "flowmap"
    <3>1. CASE z = y
      BY <1>3, <1>5, <1>9, <3>1 DEF Suits
    <3>2. CASE \E w \in Range(s.mapLayers) : SameLayer(z, w)
      <4>1. PICK w \in Range(s.mapLayers) : SameLayer(z, w)
        BY <3>2
      <4>2. PICK v \in Range(s.mapSources) :
              /\ v.id = w.source /\ v.connection = w.connection
              /\ v.kind = IF w.kind = "geojson" THEN "geojson" ELSE "flowmap"
        BY <1>1 DEF LayersHaveSources
      <4> QED
        BY <1>9, <4>1, <4>2 DEF SameLayer
    <3> QED
      BY <1>10, <3>1, <3>2
  <2> QED
    BY <2>1 DEF LayersHaveSources
<1>13. SourcesHaveLayers(t)
  BY <1>1, <1>9, <1>10 DEF SourcesHaveLayers
<1>14. ConnectionsFit(t) /\ ViewsFit(t) /\ SelectionStands(t)
  BY <1>1, <1>4, <1>8, ConnectionsLeft, ViewsLeft DEF SelectionStands
<1>15. DOMAIN t = DOMAIN EmptyStore
  BY <1>4, RangeLeft
<1>16. StoreSound(t)
  BY <1>8, <1>9, <1>11, <1>12, <1>13, <1>14, <1>15 DEF StoreSound, StateFits, ReferencesStand
<1> QED
  BY <1>16 DEF t

(* A layer of a geometry column.                                           *)
LEMMA AddGeoJsonLayerKeeps ==
  ASSUME NEW s, StoreSound(s), NEW p, p.view = None, p.type = GeometryOf[p.table][p.column],
         p.purpose \in {"configured", "record-preview"}
  PROVE  StoreSound(AddGeoJsonLayer(s, p))
<1> DEFINE found == FindGeoJsonSource(s, p)
           fresh == Source("geojson", s.made + 1, p)
           style == GeoJsonStyle(Len(s.mapLayers), p.type)
<1>1. ListFits(s.mapSources)
  BY RangeLeft
<1>2. /\ ListFits(found) /\ Range(found) \subseteq Range(s.mapSources)
      /\ \A x \in Range(found) : Suits(x, "geojson", p)
  BY <1>1, OnlyFits DEF FindGeoJsonSource, Suits, SameTable
<1>3. Suits(fresh, "geojson", p) /\ Fresh(fresh, s.made)
  BY DEF Suits, Fresh, Source, SourceFields
<1>4. DOMAIN style = DOMAIN StyleOf("geojson", 0)
  BY DEF StyleOf, GeoJsonStyle
<1>5. AddGeoJsonLayer(s, p) = Layered(s, found, fresh, p, "geojson", DefaultIcon(p.type), style)
  BY DEF AddGeoJsonLayer
<1> HIDE DEF found, fresh, style
<1> DEFINE kind == "geojson"
           icon == DefaultIcon(p.type)
<1>6. kind \in {"geojson", "flowmap", "arc"} /\ kind = "geojson"
  OBVIOUS
<1> HIDE DEF kind, icon
<1>7. StoreSound(Layered(s, found, fresh, p, kind, icon, style))
  BY <1>2, <1>3, <1>4, <1>6, LayeredKeeps
<1> QED
  BY <1>5, <1>6, <1>7 DEF icon

(* A layer of flows or of arcs.                                            *)
LEMMA FlowLayerKeeps ==
  ASSUME NEW s, StoreSound(s), NEW p, p.view = None,
         p.purpose \in {"configured", "record-preview"}
  PROVE  StoreSound(AddFlowmapLayer(s, p)) /\ StoreSound(AddArcLayer(s, p))
<1> DEFINE found == FindFlowmapSource(s, p)
           fresh == Source("flowmap", s.made + 1, p)
           line == ArcStyle(Len(s.mapLayers))
<1>1. ListFits(s.mapSources)
  BY RangeLeft
<1>2. /\ ListFits(found) /\ Range(found) \subseteq Range(s.mapSources)
      /\ \A x \in Range(found) : Suits(x, "flowmap", p) /\ Suits(x, "arc", p)
  BY <1>1, OnlyFits DEF FindFlowmapSource, Suits, SameTable
<1>3. Suits(fresh, "flowmap", p) /\ Suits(fresh, "arc", p) /\ Fresh(fresh, s.made)
  BY DEF Suits, Fresh, Source, SourceFields
<1>4. DOMAIN line = DOMAIN StyleOf("arc", 0) /\ DOMAIN FlowmapStyle = DOMAIN StyleOf("flowmap", 0)
  BY DEF StyleOf, ArcStyle
<1>5. /\ AddFlowmapLayer(s, p) = Layered(s, found, fresh, p, "flowmap", "flow", FlowmapStyle)
      /\ AddArcLayer(s, p) = Layered(s, found, fresh, p, "arc", "flow", line)
  BY DEF AddFlowmapLayer, AddArcLayer
<1> HIDE DEF found, fresh, line
<1>6. StoreSound(Layered(s, found, fresh, p, "flowmap", "flow", FlowmapStyle))
  BY <1>2, <1>3, <1>4, LayeredKeeps
<1>7. StoreSound(Layered(s, found, fresh, p, "arc", "flow", line))
  BY <1>2, <1>3, <1>4, LayeredKeeps
<1> QED
  BY <1>5, <1>6, <1>7

(* Fields an older build did not store are filled in.                      *)
LEMMA NormalizedStands ==
  ASSUME NEW s, StateFits(s, {None}), ReferencesStand(s), NEW t,
         t = [s EXCEPT !.mapSources = [i \in DOMAIN @ |-> NormalizeSource(@[i])],
                       !.mapLayers = [i \in DOMAIN @ |-> NormalizeLayer(@[i], i - 1)]]
  PROVE  /\ DrawnSound(t) /\ t.made = s.made /\ t.views = s.views /\ t.tables = s.tables
         /\ Ids(t.mapLayers) = Ids(s.mapLayers)
<1> DEFINE l == s.mapSources
           k == s.mapLayers
<1>1. /\ DOMAIN s = DOMAIN EmptyStore /\ s.made \in Nat /\ SourcesFit(s) /\ LayersFit(s, {None})
      /\ ListFits(l) /\ ListFits(k)
      /\ LayersHaveSources(s) /\ SourcesHaveLayers(s) /\ TypesFollowColumns(s) /\ ViewsAreFollowed(s)
  BY DEF StateFits, SourcesFit, LayersFit, ReferencesStand
<1>2. /\ DOMAIN t = DOMAIN s /\ t.made = s.made /\ t.views = s.views /\ t.tables = s.tables
      /\ t.mapSources = [i \in DOMAIN l |-> NormalizeSource(l[i])]
      /\ t.mapLayers = [i \in DOMAIN k |-> NormalizeLayer(k[i], i - 1)]
  BY <1>1 DEF EmptyStore
<1> HIDE DEF l, k
<1>3. ASSUME NEW i \in DOMAIN l
      PROVE  LET x == l[i]
                 z == t.mapSources[i]
             IN /\ DOMAIN z = SourceFields /\ z.id = x.id /\ z.kind = x.kind
                /\ z.connection = x.connection /\ z.table = x.table /\ z.column = x.column
                /\ z.type = x.type /\ z.filter = x.filter /\ z.view = x.view
                /\ x \in Range(l)
  <2> DEFINE x == l[i]
             z == t.mapSources[i]
  <2>1. x \in Range(l)
    BY <1>3 DEF Range
  <2>2. DOMAIN x = SourceFields
    BY <1>1, <2>1 DEF SourcesFit, l
  <2>3. z = NormalizeSource(x)
    BY <1>2, <1>3
  <2> HIDE DEF x, z
  <2>4. /\ DOMAIN z = SourceFields /\ z.id = x.id /\ z.kind = x.kind
        /\ z.connection = x.connection /\ z.table = x.table /\ z.column = x.column
        /\ z.type = x.type /\ z.filter = x.filter /\ z.view = x.view
    BY <2>2, <2>3 DEF NormalizeSource, SourceFields
  <2> QED
    BY <2>1, <2>4 DEF x, z
<1>4. ASSUME NEW i \in DOMAIN k
      PROVE  SameLayer(t.mapLayers[i], k[i]) /\ k[i] \in Range(k)
  <2> DEFINE x == k[i]
             z == t.mapLayers[i]
  <2>1. x \in Range(k)
    BY <1>4 DEF Range
  <2>2. /\ DOMAIN x = LayerFields /\ x.visible \in BOOLEAN
        /\ x.kind \in {"geojson", "flowmap", "arc"}
        /\ x.purpose \in {"configured", "record-preview"} \cup {None}
        /\ x.style = None \/ DOMAIN x.style = DOMAIN StyleOf(x.kind, 0)
    BY <1>1, <2>1 DEF LayersFit, k
  <2>3. z = NormalizeLayer(x, i - 1)
    BY <1>2, <1>4
  <2>4. DOMAIN StyleOf(x.kind, i - 1) = DOMAIN StyleOf(x.kind, 0)
    BY <2>2 DEF StyleOf, GeoJsonStyle, ArcStyle
  <2> HIDE DEF x, z
  <2>5. /\ DOMAIN z = LayerFields /\ z.id = x.id /\ z.kind = x.kind
        /\ z.connection = x.connection /\ z.source = x.source
        /\ z.visible \in BOOLEAN
    BY <2>2, <2>3 DEF NormalizeLayer, LayerFields
  <2>6. z.purpose \in {"configured", "record-preview"}
    BY <2>2, <2>3 DEF NormalizeLayer, LayerFields
  <2>7. DOMAIN z.style = DOMAIN StyleOf(z.kind, 0)
    BY <2>2, <2>3, <2>4, <2>5 DEF NormalizeLayer, LayerFields
  <2> QED
    BY <2>1, <2>5, <2>6, <2>7 DEF x, z, SameLayer
<1>5. /\ ListFits(t.mapSources) /\ DOMAIN t.mapSources = DOMAIN l
      /\ \A x \in Range(t.mapSources) : \E i \in DOMAIN l : x = t.mapSources[i]
      /\ \A i \in DOMAIN l : t.mapSources[i] \in Range(t.mapSources) /\ l[i] \in Range(l)
  <2>1. t.mapSources = [i \in DOMAIN l |-> t.mapSources[i]]
    BY <1>2
  <2>2. Renewed(t.mapSources, l)
    BY <1>3, <2>1 DEF Renewed
  <2> DEFINE m == t.mapSources
  <2>3. Renewed(m, l) /\ ListFits(l)
    BY <1>1, <2>2
  <2> HIDE DEF m
  <2>4. /\ ListFits(m) /\ DOMAIN m = DOMAIN l
        /\ \A x \in Range(m) : \E i \in DOMAIN l : x = m[i]
        /\ \A i \in DOMAIN l : m[i] \in Range(m) /\ l[i] \in Range(l)
    BY <2>3, ChangeFits
  <2> QED
    BY <2>4 DEF m
<1>6. /\ ListFits(t.mapLayers) /\ Ids(t.mapLayers) = Ids(k)
      /\ \A x \in Range(t.mapLayers) : \E i \in DOMAIN k : x = t.mapLayers[i]
      /\ \A i \in DOMAIN k : t.mapLayers[i] \in Range(t.mapLayers) /\ k[i] \in Range(k)
  <2>1. t.mapLayers = [i \in DOMAIN k |-> t.mapLayers[i]]
    BY <1>2
  <2>2. Renewed(t.mapLayers, k)
    BY <1>4, <2>1 DEF Renewed, SameLayer
  <2> DEFINE m == t.mapLayers
  <2>3. Renewed(m, k) /\ ListFits(k)
    BY <1>1, <2>2
  <2> HIDE DEF m
  <2>4. /\ ListFits(m) /\ Ids(m) = Ids(k)
        /\ \A x \in Range(m) : \E i \in DOMAIN k : x = m[i]
        /\ \A i \in DOMAIN k : m[i] \in Range(m) /\ k[i] \in Range(k)
    BY <2>3, ChangeFits
  <2> QED
    BY <2>4 DEF m
<1>7. \A x \in Range(l) : \E i \in DOMAIN l : x = l[i]
  BY DEF Range
<1>8. \A x \in Range(k) : \E i \in DOMAIN k : x = k[i]
  BY DEF Range
<1>9. SourcesFit(t)
  <2>1. \A x \in Range(l) : x.id \in 1..s.made /\ x.kind \in {"geojson", "flowmap"}
    BY <1>1 DEF SourcesFit, l
  <2> QED
    BY <1>2, <1>3, <1>5, <2>1 DEF SourcesFit
<1>10. LayersFit(t, {})
  <2>1. \A x \in Range(k) : x.id \in 1..s.made /\ x.kind \in {"geojson", "flowmap", "arc"}
    BY <1>1 DEF LayersFit, k
  <2>2. ASSUME NEW z \in Range(t.mapLayers)
        PROVE  /\ DOMAIN z = LayerFields /\ z.id \in 1..t.made
               /\ z.kind \in {"geojson", "flowmap", "arc"} /\ z.visible \in BOOLEAN
               /\ z.purpose \in {"configured", "record-preview"}
               /\ DOMAIN z.style = DOMAIN StyleOf(z.kind, 0)
    <3>1. PICK i \in DOMAIN k : z = t.mapLayers[i]
      BY <1>6
    <3>2. SameLayer(z, k[i]) /\ k[i] \in Range(k)
      BY <1>4, <3>1
    <3> QED
      BY <1>2, <2>1, <3>2 DEF SameLayer
  <2> QED
    BY <1>6, <2>2 DEF LayersFit
<1>11. LayersHaveSources(t)
  <2>1. ASSUME NEW z \in Range(t.mapLayers)
        PROVE  \E v \in Range(t.mapSources) :
                 /\ v.id = z.source /\ v.connection = z.connection
                 /\ v.kind = IF z.kind = "geojson" THEN "geojson" ELSE "flowmap"
    <3>1. PICK i \in DOMAIN k : z = t.mapLayers[i]
      BY <1>6
    <3>2. SameLayer(z, k[i]) /\ k[i] \in Range(k)
      BY <1>4, <3>1
    <3>3. PICK x \in Range(l) :
            /\ x.id = k[i].source /\ x.connection = k[i].connection
            /\ x.kind = IF k[i].kind = "geojson" THEN "geojson" ELSE "flowmap"
      BY <1>1, <3>2 DEF LayersHaveSources, l, k
    <3>4. PICK j \in DOMAIN l : x = l[j]
      BY <1>7
    <3>5. /\ t.mapSources[j].id = x.id /\ t.mapSources[j].connection = x.connection
          /\ t.mapSources[j].kind = x.kind
      BY <1>3, <3>4
    <3>6. t.mapSources[j] \in Range(t.mapSources)
      BY <1>5
    <3>7. z.source = k[i].source /\ z.connection = k[i].connection /\ z.kind = k[i].kind
      BY <3>2 DEF SameLayer
    <3> QED
      BY <3>3, <3>5, <3>6, <3>7
  <2> QED
    BY <2>1 DEF LayersHaveSources
<1>12. SourcesHaveLayers(t)
  <2>1. ASSUME NEW z \in Range(t.mapSources)
        PROVE  \E y \in Range(t.mapLayers) : y.source = z.id
    <3>1. PICK i \in DOMAIN l : z = t.mapSources[i]
      BY <1>5
    <3>2. z.id = l[i].id /\ l[i] \in Range(l)
      BY <1>3, <3>1
    <3>3. PICK y \in Range(k) : y.source = z.id
      BY <1>1, <3>2 DEF SourcesHaveLayers, l, k
    <3>4. PICK j \in DOMAIN k : y = k[j]
      BY <1>8
    <3>5. t.mapLayers[j].source = k[j].source
      BY <1>4 DEF SameLayer
    <3>6. t.mapLayers[j] \in Range(t.mapLayers)
      BY <1>6
    <3> QED
      BY <3>3, <3>4, <3>5, <3>6
  <2> QED
    BY <2>1 DEF SourcesHaveLayers
<1>13. TypesFollowColumns(t)
  BY <1>1, <1>3, <1>5 DEF TypesFollowColumns, l
<1>14. ViewsAreFollowed(t)
  <2>1. ASSUME NEW z \in Range(t.mapSources), z.view # None
        PROVE  /\ z.kind = "geojson" /\ z.filter # None
               /\ \E v \in Range(t.views) :
                    v.id = z.view /\ v.connection = z.connection /\ v.filter = z.filter
    <3>1. PICK i \in DOMAIN l : z = t.mapSources[i]
      BY <1>5, <2>1
    <3>2. /\ z.kind = l[i].kind /\ z.connection = l[i].connection /\ z.filter = l[i].filter
          /\ z.view = l[i].view /\ l[i] \in Range(l)
      BY <1>3, <3>1
    <3> QED
      BY <1>1, <1>2, <2>1, <3>2 DEF ViewsAreFollowed, l
  <2> QED
    BY <2>1 DEF ViewsAreFollowed
<1> QED
  BY <1>1, <1>2, <1>6, <1>9, <1>10, <1>11, <1>12, <1>13, <1>14 DEF DrawnSound, ReferencesStand, k

(* One layer of a build without sources.                                   *)
LEMMA MigrateLayerKeeps ==
  ASSUME NEW s, DrawnSound(s), NEW p, p.id \in 1..s.made, p.id \notin Ids(s.mapLayers),
         p.visible \in BOOLEAN, p.view = None, p.type = GeometryOf[p.table][p.column]
  PROVE  LET t == MigrateLayer(s, p)
         IN /\ DrawnSound(t) /\ t.made = s.made + 1 /\ t.views = s.views /\ t.tables = s.tables
            /\ Ids(t.mapLayers) \subseteq Ids(s.mapLayers) \cup {p.id}
<1> DEFINE t == MigrateLayer(s, p)
           found == FindGeoJsonSource(s, p)
           fresh == Source("geojson", s.made + 1, p)
           x == IF found = << >> THEN fresh ELSE found[1]
           known == \E y \in Range(s.mapLayers) : y.id = p.id \/ y.source = x.id
           style == [GeoJsonStyle(p.color, p.type) EXCEPT
                       !.fillOpacity = p.opacity,
                       !.strokeOpacity = IF p.opacity > 85 THEN 100 ELSE p.opacity + 15]
           layer == [id |-> p.id, kind |-> "geojson", connection |-> p.connection, source |-> x.id,
                     name |-> p.name, visible |-> p.visible, tooltip |-> TRUE, icon |-> p.icon,
                     purpose |-> "configured", style |-> style]
<1>1. /\ DOMAIN s = DOMAIN EmptyStore /\ s.made \in Nat /\ SourcesFit(s) /\ LayersFit(s, {})
      /\ ListFits(s.mapSources) /\ ListFits(s.mapLayers)
      /\ LayersHaveSources(s) /\ SourcesHaveLayers(s)
  BY DEF DrawnSound, SourcesFit, LayersFit, ReferencesStand
<1>2. /\ DOMAIN t = DOMAIN s /\ t.made = s.made + 1 /\ t.views = s.views /\ t.tables = s.tables
      /\ t.mapSources = IF found = << >> THEN Append(s.mapSources, fresh) ELSE s.mapSources
      /\ t.mapLayers = IF known THEN s.mapLayers ELSE Append(s.mapLayers, layer)
  BY <1>1 DEF MigrateLayer, EmptyStore
<1>3. /\ ListFits(found) /\ Range(found) \subseteq Range(s.mapSources)
      /\ \A z \in Range(found) : Suits(z, "geojson", p)
  BY <1>1, OnlyFits DEF FindGeoJsonSource, Suits, SameTable
<1>4. Suits(fresh, "geojson", p) /\ Fresh(fresh, s.made) /\ fresh.kind = "geojson"
  BY DEF Suits, Fresh, Source, SourceFields
<1>5. DOMAIN style = DOMAIN StyleOf("geojson", 0)
  BY DEF StyleOf, GeoJsonStyle
<1> HIDE DEF style
<1>6. SameLayer(layer, layer) /\ layer.id = p.id /\ layer.source = x.id /\ layer.kind = "geojson"
      /\ layer.connection = p.connection
  BY <1>5 DEF SameLayer, LayerFields
<1> HIDE DEF t, found, fresh, layer
<1>7. /\ found = << >> => x = fresh
      /\ found # << >> => x \in Range(s.mapSources)
      /\ Suits(x, "geojson", p)
  <2>1. found # << >> => found[1] \in Range(found)
    BY <1>3, ListBasics
  <2> QED
    BY <1>3, <1>4, <2>1
<1>8. known <=> \E y \in Range(s.mapLayers) : y.source = x.id
  BY IdsOf DEF Has
<1> HIDE DEF x, known
<1>9. s.made < t.made /\ t.made \in Nat
  <2>1. t.made = s.made + 1
    BY <1>2
  <2> QED
    BY <1>1, <2>1
<1>10. /\ Range(t.mapSources) = Range(s.mapSources) \cup {x}
       /\ SourcesFit(t) /\ TypesFollowColumns(t) /\ ViewsAreFollowed(t)
  <2> DEFINE kind == "geojson"
  <2>1. kind \in {"geojson", "flowmap", "arc"} /\ Suits(x, kind, p)
    BY <1>7
  <2> HIDE DEF kind
  <2> QED
    BY <1>2, <1>4, <1>7, <1>9, <2>1, SourcesGrow
<1>11. /\ ListFits(t.mapLayers)
       /\ Range(t.mapLayers) = Range(s.mapLayers) \cup (IF known THEN {} ELSE {layer})
  <2>1. CASE known
    BY <1>1, <1>2, <2>1
  <2>2. CASE ~known
    <3>1. \A z \in Range(s.mapLayers) : z.id # layer.id
      BY <1>6, IdsOf DEF Has
    <3>2. t.mapLayers = Append(s.mapLayers, layer)
      BY <1>2, <2>2
    <3> QED
      BY <1>1, <2>2, <3>1, <3>2, AppendFits
  <2> QED
    BY <2>1, <2>2
<1>12. Ids(t.mapLayers) \subseteq Ids(s.mapLayers) \cup {p.id}
  <2>1. ASSUME NEW id \in Ids(t.mapLayers) PROVE id \in Ids(s.mapLayers) \cup {p.id}
    <3>1. PICK z \in Range(t.mapLayers) : z.id = id
      BY <2>1, IdsOf DEF Has
    <3> QED
      BY <1>6, <1>11, <3>1, IdsOf DEF Has
  <2> QED
    BY <2>1
<1>13. LayersFit(t, {})
  <2>1. p.id \in 1..t.made /\ \A i \in 1..s.made : i \in 1..t.made
    BY <1>1, <1>9
  <2>2. ASSUME NEW z \in Range(t.mapLayers)
        PROVE  /\ DOMAIN z = LayerFields /\ z.id \in 1..t.made
               /\ z.kind \in {"geojson", "flowmap", "arc"} /\ z.visible \in BOOLEAN
               /\ z.purpose \in {"configured", "record-preview"}
               /\ DOMAIN z.style = DOMAIN StyleOf(z.kind, 0)
    <3>1. CASE z \in Range(s.mapLayers)
      BY <1>1, <2>1, <3>1 DEF LayersFit
    <3>2. CASE z = layer
      BY <1>6, <2>1, <3>2 DEF SameLayer
    <3> QED
      BY <1>11, <3>1, <3>2
  <2> QED
    BY <1>11, <2>2 DEF LayersFit
<1>14. LayersHaveSources(t)
  <2>1. ASSUME NEW z \in Range(t.mapLayers)
        PROVE  \E v \in Range(t.mapSources) :
                 /\ v.id = z.source /\ v.connection = z.connection
                 /\ v.kind = IF z.kind = "geojson" THEN "geojson" ELSE "flowmap"
    <3>1. CASE z \in Range(s.mapLayers)
      BY <1>1, <1>10, <3>1 DEF LayersHaveSources
    <3>2. CASE z = layer
      BY <1>6, <1>7, <1>10, <3>2 DEF Suits
    <3> QED
      BY <1>11, <3>1, <3>2
  <2> QED
    BY <2>1 DEF LayersHaveSources
<1>15. SourcesHaveLayers(t)
  <2>1. ASSUME NEW z \in Range(t.mapSources)
        PROVE  \E y \in Range(t.mapLayers) : y.source = z.id
    <3>1. CASE z \in Range(s.mapSources)
      BY <1>1, <1>11, <3>1 DEF SourcesHaveLayers
    <3>2. CASE z = x
      <4>1. CASE known
        BY <1>8, <1>11, <3>2, <4>1
      <4>2. CASE ~known
        BY <1>6, <1>11, <3>2, <4>2
      <4> QED
        BY <4>1, <4>2
    <3> QED
      BY <1>10, <3>1, <3>2
  <2> QED
    BY <2>1 DEF SourcesHaveLayers
<1>16. DrawnSound(t)
  BY <1>1, <1>2, <1>9, <1>10, <1>13, <1>14, <1>15 DEF DrawnSound, ReferencesStand
<1> QED
  BY <1>2, <1>12, <1>16 DEF t

(* The layers of a build without sources, one after the other.             *)
MigratedUpTo(n, s, l) ==
  \E g : g = [i \in 0..n |-> IF i = 0 THEN s ELSE MigrateLayer(g[i - 1], l[i])]

(* There is the store after n of them.                                     *)
LEMMA MigratedExist ==
  ASSUME NEW s, NEW l, NEW n \in Nat
  PROVE  MigratedUpTo(n, s, l)
<1> DEFINE Next1(x, i) == MigrateLayer(x, l[i])
           Good(m, g) == g = [i \in 0..m |-> IF i = 0 THEN s ELSE Next1(g[i - 1], i)]
           T == {m \in 0..n : \E g : Good(m, g)}
<1>0. ASSUME NEW g, Good(n, g) PROVE MigratedUpTo(n, s, l)
  BY <1>0 DEF MigratedUpTo
<1> HIDE DEF Next1
<1>1. 0 \in T
  <2> DEFINE g == [i \in 0..0 |-> s]
  <2>1. \A i \in 0..0 : i = 0
    OBVIOUS
  <2>2. g = [i \in 0..0 |-> IF i = 0 THEN s ELSE Next1(g[i - 1], i)]
    BY <2>1
  <2>3. \E k : Good(0, k)
    BY <2>2
  <2> QED
    BY <2>3
<1>2. ASSUME NEW m \in 0..n, m + 1 \in 0..n, m \in T PROVE m + 1 \in T
  <2>1. PICK g : Good(m, g)
    BY <1>2
  <2> DEFINE h == [i \in 0..(m + 1) |-> IF i = m + 1 THEN Next1(g[m], m + 1) ELSE g[i]]
  <2>2. \A i \in 0..m : g[i] = IF i = 0 THEN s ELSE Next1(g[i - 1], i)
    BY <2>1
  <2>3. \A i \in 0..(m + 1) : h[i] = IF i = 0 THEN s ELSE Next1(h[i - 1], i)
    BY <2>2
  <2>4. Good(m + 1, h)
    <3>1. h = [i \in 0..(m + 1) |-> h[i]]
      OBVIOUS
    <3> HIDE DEF h
    <3> QED
      BY <2>3, <3>1
  <2> QED
    BY <1>2, <2>4
<1>3. T = 0..n
  <2> HIDE DEF T
  <2>1. T \in SUBSET (0..n)
    BY DEF T
  <2> QED
    BY <1>1, <1>2, <2>1, CountUp
<1>4. n \in T
  <2> HIDE DEF T
  <2> QED
    BY <1>3
<1>5. PICK g : Good(n, g)
  BY <1>4
<1> QED
  BY <1>0, <1>5

(* What stands after n of the layers: none of those to come is there.      *)
Migrating(t, s, l, n) ==
  /\ DrawnSound(t) /\ s.made <= t.made /\ t.views = s.views /\ t.tables = s.tables
  /\ \A i \in DOMAIN l : n < i => l[i].id \notin Ids(t.mapLayers)

(* The whole list is migrated to a store that stands.                      *)
LEMMA MigrateLegacyKeeps ==
  ASSUME NEW s, DrawnSound(s), NEW l, ListFits(l),
         \A p \in Range(l) :
           /\ p.id \in (1..s.made) \ Ids(s.mapLayers) /\ p.visible \in BOOLEAN
           /\ p.view = None /\ p.type = GeometryOf[p.table][p.column]
  PROVE  LET t == MigrateLegacy(s, l)
         IN DrawnSound(t) /\ s.made <= t.made /\ t.views = s.views /\ t.tables = s.tables
<1> DEFINE migrated[i \in 0..Len(l)] ==
             IF i = 0 THEN s ELSE MigrateLayer(migrated[i - 1], l[i])
           size == Len(l)
<1>1. MigrateLegacy(s, l) = migrated[size]
  BY DEF MigrateLegacy
<1>2. size \in Nat /\ DOMAIN l = 1..size /\ (\A i \in 1..size : l[i] \in Range(l)) /\ s.made \in Nat
  BY ListBasics DEF DrawnSound
<1>3. migrated = [i \in 0..size |-> IF i = 0 THEN s ELSE MigrateLayer(migrated[i - 1], l[i])]
  <2>1. migrated = CHOOSE g : g = [i \in 0..size |->
                     IF i = 0 THEN s ELSE MigrateLayer(g[i - 1], l[i])]
    BY DEF migrated
  <2> HIDE DEF migrated, size
  <2>2. \E g : g = [i \in 0..size |-> IF i = 0 THEN s ELSE MigrateLayer(g[i - 1], l[i])]
    <3>1. MigratedUpTo(size, s, l)
      BY <1>2, MigratedExist
    <3> QED
      BY <3>1, Zenon DEF MigratedUpTo
  <2> QED
    BY <2>1, <2>2, Zenon
<1> HIDE DEF migrated, size
<1>4. migrated[0] = s
  BY <1>2, <1>3
<1> DEFINE T == {m \in 0..size : Migrating(migrated[m], s, l, m)}
<1>5. 0 \in T
  <2>1. \A i \in DOMAIN l : l[i].id \notin Ids(s.mapLayers)
    BY <1>2
  <2>2. Migrating(s, s, l, 0)
    BY <1>2, <2>1 DEF Migrating
  <2> QED
    BY <1>2, <1>4, <2>2
<1>6. ASSUME NEW m \in 0..size, m + 1 \in 0..size, m \in T PROVE m + 1 \in T
  <2> DEFINE t == migrated[m]
             p == l[m + 1]
             u == MigrateLayer(t, p)
  <2>1. m + 1 # 0 /\ (m + 1) - 1 = m /\ m + 1 \in 1..size
    BY <1>2, <1>6
  <2>2. migrated[m + 1] = u
    BY <1>3, <1>6, <2>1
  <2>3. Migrating(t, s, l, m)
    BY <1>6
  <2>4. /\ p \in Range(l) /\ p.id \in 1..s.made /\ p.visible \in BOOLEAN
        /\ p.view = None /\ p.type = GeometryOf[p.table][p.column]
    BY <1>2, <2>1
  <2>5. p.id \notin Ids(t.mapLayers)
    BY <1>2, <2>1, <2>3 DEF Migrating
  <2> HIDE DEF t, p
  <2>6. DrawnSound(t) /\ t.made \in Nat /\ s.made <= t.made /\ t.views = s.views /\ t.tables = s.tables
    BY <2>3 DEF Migrating, DrawnSound
  <2>7. p.id \in 1..t.made
    BY <1>2, <2>4, <2>6
  <2>8. /\ DrawnSound(u) /\ u.made = t.made + 1 /\ u.views = t.views /\ u.tables = t.tables
        /\ Ids(u.mapLayers) \subseteq Ids(t.mapLayers) \cup {p.id}
    BY <2>4, <2>5, <2>6, <2>7, MigrateLayerKeeps
  <2> HIDE DEF u
  <2>9. s.made <= u.made
    BY <1>2, <2>6, <2>8
  <2>10. ASSUME NEW i \in DOMAIN l, m + 1 < i PROVE l[i].id \notin Ids(u.mapLayers)
    <3>1. l[i].id # p.id
      <4>1. i # m + 1 /\ i \in DOMAIN l /\ m + 1 \in DOMAIN l
        BY <1>2, <1>6, <2>1, <2>10
      <4> QED
        BY <4>1 DEF ListFits, Unique, p
    <3>2. l[i].id \notin Ids(t.mapLayers)
      <4>1. m < i
        BY <1>2, <1>6, <2>10
      <4> QED
        BY <2>3, <4>1 DEF Migrating
    <3> QED
      BY <2>8, <3>1, <3>2
  <2>11. Migrating(u, s, l, m + 1)
    BY <2>6, <2>8, <2>9, <2>10 DEF Migrating
  <2> QED
    BY <1>6, <2>2, <2>11
<1>7. T = 0..size
  <2> HIDE DEF T
  <2>1. T \in SUBSET (0..size)
    BY DEF T
  <2> QED
    BY <1>2, <1>5, <1>6, <2>1, CountUp
<1>8. Migrating(migrated[size], s, l, size)
  <2>1. size \in 0..size
    BY <1>2
  <2>2. size \in T
    <3> HIDE DEF T
    <3> QED
      BY <1>7, <2>1
  <2> QED
    BY <2>2
<1> QED
  BY <1>1, <1>8 DEF Migrating

(* What an earlier page left, whatever was selected.                       *)
StoredSound(stored) ==
  LET s == stored.state
  IN /\ StateFits(s, {None}) /\ ReferencesStand(s)
     /\ ListFits(stored.imported) /\ ListFits(stored.filters)
     /\ \A p \in Range(stored.imported) :
          /\ p.id \in (1..s.made) \ Ids(s.mapLayers) /\ p.visible \in BOOLEAN
          /\ p.view = None /\ p.type = GeometryOf[p.table][p.column]
     /\ ViewsFit([s EXCEPT !.views = @ \o stored.filters])
(* What a page that is loaded makes of what an earlier one kept.           *)
LEMMA MergeSound ==
  ASSUME NEW stored, StoredSound(stored)
  PROVE  /\ StoreSound(Merge(stored)) /\ Merge(stored).tables = stored.state.tables
         /\ Range(Merge(stored).views) \subseteq Range(stored.state.views \o stored.filters)
<1> DEFINE s == stored.state
           d == [s EXCEPT !.mapSources = [i \in DOMAIN @ |-> NormalizeSource(@[i])],
                          !.mapLayers = [i \in DOMAIN @ |-> NormalizeLayer(@[i], i - 1)]]
           g == MigrateLegacy(d, stored.imported)
           l == s.connections
           told == [i \in DOMAIN l |-> NormalizeConnection(l[i])]
           kept == Only(told, {c \in Range(told) : ~c.bundled})
           views == NormalizeView(g.views \o stored.filters)
           t == Merge(stored)
<1>1. /\ StateFits(s, {None}) /\ ReferencesStand(s) /\ ListFits(stored.imported)
      /\ ListFits(stored.filters)
      /\ \A p \in Range(stored.imported) :
           /\ p.id \in (1..s.made) \ Ids(s.mapLayers) /\ p.visible \in BOOLEAN
           /\ p.view = None /\ p.type = GeometryOf[p.table][p.column]
      /\ ViewsFit([s EXCEPT !.views = @ \o stored.filters])
  BY DEF StoredSound
<1>2. /\ DOMAIN s = DOMAIN EmptyStore /\ s.made \in Nat /\ ConnectionsFit(s) /\ ListFits(l)
      /\ ListFits(s.views)
  BY <1>1 DEF StateFits, ConnectionsFit, ViewsFit
<1>3. /\ ListFits(s.views \o stored.filters)
      /\ \A v \in Range(s.views \o stored.filters) :
           DOMAIN v = {"id", "connection", "table", "filter"} /\ v.id \in 1..s.made
  <2> DEFINE e == [s EXCEPT !.views = @ \o stored.filters]
  <2>1. e.views = s.views \o stored.filters /\ e.made = s.made
    BY <1>2 DEF EmptyStore
  <2>2. ViewsFit(e)
    BY <1>1
  <2> HIDE DEF e, s
  <2> QED
    BY <2>1, <2>2 DEF ViewsFit
<1>4. /\ DrawnSound(d) /\ d.made = s.made /\ d.views = s.views /\ d.tables = s.tables
      /\ Ids(d.mapLayers) = Ids(s.mapLayers)
  <2> HIDE DEF s
  <2> QED
    BY <1>1, NormalizedStands
<1>5. t = [g EXCEPT !.connections = kept, !.views = views,
                    !.selected = IF Has(kept, @) THEN @ ELSE First(kept)]
  BY DEF Merge
<1> HIDE DEF d, s
<1>6. DrawnSound(g) /\ s.made <= g.made /\ g.views = s.views /\ g.tables = s.tables
  BY <1>1, <1>4, MigrateLegacyKeeps
<1> HIDE DEF g
<1>7. /\ DOMAIN g = DOMAIN EmptyStore /\ g.made \in Nat /\ SourcesFit(g) /\ LayersFit(g, {})
      /\ LayersHaveSources(g) /\ SourcesHaveLayers(g) /\ TypesFollowColumns(g)
      /\ ViewsAreFollowed(g)
  BY <1>6 DEF DrawnSound, ReferencesStand
<1>8. /\ DOMAIN t = DOMAIN EmptyStore /\ t.made = g.made /\ t.mapSources = g.mapSources
      /\ t.mapLayers = g.mapLayers /\ t.connections = kept /\ t.views = views
      /\ t.tables = g.tables
      /\ t.selected = IF Has(kept, g.selected) THEN g.selected ELSE First(kept)
  BY <1>5, <1>7 DEF EmptyStore
<1>9. /\ ListFits(kept)
      /\ \A c \in Range(kept) : c \in Connection /\ c.id \in 1..s.made \cup ServerIds
  <2>1. ASSUME NEW i \in DOMAIN l
        PROVE  /\ told[i].id = l[i].id /\ told[i] \in Connection
               /\ l[i].id \in 1..s.made \cup ServerIds
    <3> DEFINE c == l[i]
    <3>1. c \in Connection /\ c.id \in 1..s.made \cup ServerIds
      BY <1>2, <2>1 DEF ConnectionsFit, Range
    <3>2. told[i] = NormalizeConnection(c)
      BY <2>1
    <3> HIDE DEF c, told
    <3>3. told[i] \in Connection /\ told[i].id = c.id
      BY <3>1, <3>2 DEF NormalizeConnection, Connection
    <3> QED
      BY <3>1, <3>3 DEF c
  <2>2. told = [i \in DOMAIN l |-> told[i]]
    OBVIOUS
  <2> HIDE DEF told, l
  <2>3. Renewed(told, l)
    BY <2>1, <2>2 DEF Renewed
  <2>4. ListFits(told) /\ \A c \in Range(told) : \E i \in DOMAIN l : c = told[i]
    BY <1>2, <2>3, ChangeFits
  <2>5. ListFits(kept) /\ Range(kept) \subseteq Range(told)
    BY <2>4, OnlyFits
  <2> HIDE DEF kept
  <2> QED
    BY <2>1, <2>4, <2>5
<1>10. /\ ListFits(views)
       /\ Range(views) \subseteq Range(s.views \o stored.filters)
       /\ \A v \in Range(s.views) : v.filter # None => v \in Range(views)
  <2> DEFINE all == s.views \o stored.filters
  <2>1. ListFits(all)
    BY <1>3
  <2>2. Range(s.views) \subseteq Range(all)
    BY <1>1, <1>2, ConcatHas
  <2>3. views = NormalizeView(all)
    BY <1>6
  <2> HIDE DEF all, views
  <2>4. ListFits(views) /\ Range(views) = {v \in Range(all) : v.filter # None}
    BY <2>1, <2>3, OnlyFits DEF NormalizeView
  <2> QED
    BY <2>2, <2>4 DEF all
<1> HIDE DEF t, kept, views, told, l
<1>11. \A i \in 1..s.made : i \in 1..t.made
  BY <1>2, <1>6, <1>7, <1>8
<1>12. ConnectionsFit(t) /\ ViewsFit(t)
  BY <1>3, <1>8, <1>9, <1>10, <1>11 DEF ConnectionsFit, ViewsFit
<1>13. SourcesFit(t) /\ LayersFit(t, {})
  BY <1>7, <1>8, SourcesLeft, LayersLeft
<1>14. LayersHaveSources(t) /\ SourcesHaveLayers(t) /\ TypesFollowColumns(t)
  BY <1>7, <1>8 DEF LayersHaveSources, SourcesHaveLayers, TypesFollowColumns
<1>15. ViewsAreFollowed(t)
  <2>1. ASSUME NEW z \in Range(t.mapSources), z.view # None
        PROVE  /\ z.kind = "geojson" /\ z.filter # None
               /\ \E v \in Range(t.views) :
                    v.id = z.view /\ v.connection = z.connection /\ v.filter = z.filter
    <3>1. PICK v \in Range(s.views) :
            /\ z.kind = "geojson" /\ z.filter # None
            /\ v.id = z.view /\ v.connection = z.connection /\ v.filter = z.filter
      BY <1>6, <1>7, <1>8, <2>1 DEF ViewsAreFollowed
    <3> QED
      BY <1>8, <1>10, <3>1
  <2> QED
    BY <2>1 DEF ViewsAreFollowed
<1>16. SelectionStands(t)
  BY <1>8, <1>9, FallsToFirst
<1>17. StoreSound(t)
  BY <1>7, <1>8, <1>12, <1>13, <1>14, <1>15, <1>16 DEF StoreSound, StateFits, ReferencesStand
<1> QED
  BY <1>4, <1>6, <1>8, <1>10, <1>17 DEF t, s

(* The page is loaded again.                                               *)
LEMMA ReloadedKeeps ==
  ASSUME NEW s, StoreSound(s)
  PROVE  StoreSound(Reloaded(s))
<1> DEFINE m == [i \in DOMAIN s.connections |-> StripSecret(s.connections[i])]
           t == [s EXCEPT !.connections = m]
           stored == [state |-> t, imported |-> << >>, filters |-> << >>]
<1>1. ConnectionsFit(s) /\ DOMAIN s = DOMAIN EmptyStore
  BY DEF StoreSound, StateFits
<1>2. \A i \in DOMAIN s.connections : m[i].id = s.connections[i].id /\ m[i] \in Connection
  <2>1. \A i \in DOMAIN s.connections : s.connections[i] \in Connection
    BY <1>1 DEF ConnectionsFit, Range
  <2>2. \A c \in Connection : StripSecret(c).id = c.id /\ StripSecret(c) \in Connection
    BY DEF StripSecret, Connection
  <2> QED
    BY <2>1, <2>2
<1>3. m = [i \in DOMAIN s.connections |-> m[i]]
  OBVIOUS
<1> HIDE DEF m
<1>4. StoreSound(t)
  BY <1>2, <1>3, ConnectionsChanged
<1> HIDE DEF t
<1>5. StateFits(t, {None}) /\ ReferencesStand(t) /\ ListFits(t.views) /\ DOMAIN t = DOMAIN EmptyStore
      /\ ViewsFit(t)
  BY <1>4 DEF StoreSound, StateFits, LayersFit, ViewsFit
<1>6. ViewsFit([t EXCEPT !.views = @ \o << >>])
  <2>1. t.views \o << >> = t.views
    BY <1>5 DEF ListFits
  <2>2. [t EXCEPT !.views = @ \o << >>].views = t.views /\ [t EXCEPT !.views = @ \o << >>].made = t.made
    BY <1>5, <2>1 DEF EmptyStore
  <2> QED
    BY <1>5, <2>2 DEF ViewsFit
<1>7. StoredSound(stored)
  <2>1. stored.state = t /\ stored.imported = << >> /\ stored.filters = << >>
    OBVIOUS
  <2> HIDE DEF stored
  <2> QED
    BY <1>5, <1>6, <2>1, EmptyFits DEF StoredSound
<1>8. Reloaded(s) = Merge(stored)
  BY DEF Reloaded, Partialize, t, m
<1> HIDE DEF stored
<1> QED
  BY <1>7, <1>8, MergeSound

(* What FirstStored holds is such a state.                                 *)
LEMMA StoredIsSound ==
  ASSUME NEW stored, StoredFits(stored)
  PROVE  StoredSound(stored) /\ KeysFit([stored.state EXCEPT !.views = @ \o stored.filters])
  BY DEF StoredFits, StoredSound

(* The selection and the views of a page that is loaded are of tables.     *)
LEMMA MergeKeys ==
  ASSUME NEW stored, StoredFits(stored)
  PROVE  KeysFit(Merge(stored))
<1> DEFINE s == stored.state
           e == [s EXCEPT !.views = @ \o stored.filters]
           t == Merge(stored)
<1>1. StoredSound(stored) /\ KeysFit(e)
  BY StoredIsSound
<1>2. DOMAIN s = DOMAIN EmptyStore
  BY <1>1 DEF StoredSound, StateFits
<1>3. e.views = s.views \o stored.filters /\ e.tables = s.tables
  BY <1>2 DEF EmptyStore
<1>4. t.tables = s.tables /\ Range(t.views) \subseteq Range(s.views \o stored.filters)
  BY <1>1, MergeSound
<1> HIDE DEF e, t, s
<1>5. KeysFit(t)
  BY <1>1, <1>3, <1>4 DEF KeysFit
<1> QED
  BY <1>5 DEF t

(* The first store.                                                        *)
LEMMA StoreInitSound ==
  ASSUME NEW stored \in FirstStored, StoreInit(stored)
  PROVE  StoreSound(store) /\ KeysFit(store)
<1>1. store = Merge(stored)
  BY DEF StoreInit
<1>2. StoredFits(stored)
  BY StoredAlike
<1> QED
  BY <1>1, <1>2, StoredIsSound, MergeSound, MergeKeys

(* A source takes another column, and its type.                            *)
LEMMA ColumnOfSourceKeeps ==
  ASSUME NEW s, StoreSound(s), NEW x \in Range(s.mapSources), NEW c
  PROVE  StoreSound(UpdateGeoJsonColumn(s, x.id, c, GeometryOf[x.table][c]))
<1>1. ListFits(s.mapSources)
  BY RangeLeft
<1>2. \A z \in Range(s.mapSources) : z.id = x.id => z = x
  BY <1>1, OneOfEach
<1> QED
  BY <1>2, ColumnKeeps

(* Every operation of the store.                                           *)
LEMMA StoreNextKeeps ==
  ASSUME StoreSound(store), StoreNext
  PROVE  StoreSound(store')
<1>1. CASE ConnectionCalled
  <2>1. CASE \E b \in BOOLEAN : Call(AddConnection(store, b))
    BY <2>1, AddConnectionKeeps DEF Call
  <2>2. CASE \E listed \in {<< >>} \cup {<<i>> : i \in ServerIds} :
               Call(UpsertServerConnections(store, listed))
    BY <2>2, UpsertServerConnectionsKeeps DEF Call
  <2>3. CASE \E i \in DOMAIN store.connections :
               LET c == store.connections[i]
               IN \/ ~c.server /\ Call(RemoveConnection(store, c.id))
                  \/ store.selected # c.id /\ Call(SelectConnection(store, c.id))
                  \/ Call(RefreshMapSourcesForConnection(store, c.id))
    <3>1. PICK id : /\ Has(store.connections, id)
                    /\ \/ store' = RemoveConnection(store, id)
                       \/ store' = SelectConnection(store, id)
                       \/ store' = RefreshMapSourcesForConnection(store, id)
      BY <2>3 DEF Call, Has, Ids
    <3> QED
      BY <3>1, RemoveConnectionKeeps, SelectConnectionKeeps, RefreshConnectionKeeps
  <2>4. CASE Call(Reloaded(store))
    BY <2>4, ReloadedKeeps DEF Call
  <2> QED
    BY <1>1, <2>1, <2>2, <2>3, <2>4 DEF ConnectionCalled
<1>2. CASE ViewCalled
  <2>1. CASE \E v : store' = AddSavedTableView(store, v)
    BY <2>1, AddViewKeeps
  <2>2. CASE \E id : \E f \in FilterTerms : store' = UpdateSavedTableView(store, id, f)
    BY <2>2, UpdateViewKeeps
  <2>3. CASE \E id : store' = RemoveSavedTableView(store, id)
    BY <2>3, RemoveViewKeeps
  <2> QED
    BY <1>2, <2>1, <2>2, <2>3 DEF ViewCalled, Call
<1>3. CASE LayerCalled
  <2>1. CASE \E conn, t, c : \E p \in {"configured", "record-preview"} :
               store' = AddGeoJsonLayer(store, GeometryPayload(conn, t, c, p))
    <3>1. PICK conn, t, c, purpose : /\ purpose \in {"configured", "record-preview"}
                       /\ store' = AddGeoJsonLayer(store, GeometryPayload(conn, t, c, purpose))
      BY <2>1
    <3> DEFINE p == GeometryPayload(conn, t, c, purpose)
    <3>2. /\ p.view = None /\ p.type = GeometryOf[p.table][p.column]
          /\ p.purpose \in {"configured", "record-preview"}
      BY <3>1 DEF GeometryPayload
    <3> HIDE DEF p
    <3>3. StoreSound(AddGeoJsonLayer(store, p))
      BY <3>2, AddGeoJsonLayerKeeps
    <3> QED
      BY <3>1, <3>3 DEF p
  <2>2. CASE \E conn, t, flow, row :
               \/ store' = AddArcLayer(store, FlowPayload(conn, t, flow, row))
               \/ store' = AddFlowmapLayer(store, FlowPayload(conn, t, flow, row))
    <3>1. PICK conn, t, flow, row :
               \/ store' = AddArcLayer(store, FlowPayload(conn, t, flow, row))
               \/ store' = AddFlowmapLayer(store, FlowPayload(conn, t, flow, row))
      BY <2>2
    <3> DEFINE p == FlowPayload(conn, t, flow, row)
    <3>2. p.view = None /\ p.purpose \in {"configured", "record-preview"}
      BY DEF FlowPayload
    <3> HIDE DEF p
    <3>3. StoreSound(AddFlowmapLayer(store, p)) /\ StoreSound(AddArcLayer(store, p))
      BY <3>2, FlowLayerKeeps
    <3> QED
      BY <3>1, <3>3 DEF p
  <2>3. CASE \E p : store' = RefreshGeoJsonSourcesForTable(store, p)
    BY <2>3, RefreshTableKeeps
  <2>4. CASE \E id : \/ store' = RemoveMapLayer(store, id)
                     \/ store' = ToggleMapLayerVisibility(store, id)
    BY <2>4, RemoveMapLayerKeeps, VisibilityKeeps DEF LayersKept
  <2>5. CASE \E x \in Range(store.mapSources) : \E c :
               store' = UpdateGeoJsonColumn(store, x.id, c, GeometryOf[x.table][c])
    BY <2>5, ColumnOfSourceKeeps
  <2>6. CASE \E id, flow : store' = UpdateFlowmapSource(store, id, flow)
    BY <2>6, FlowKeeps
  <2>7. ASSUME NEW i \in DOMAIN store.mapSources,
               LET x == store.mapSources[i]
               IN \/ /\ x.kind = "geojson"
                     /\ \E c \in DOMAIN GeometryOf[x.table] :
                          Call(UpdateGeoJsonColumn(store, x.id, c, GeometryOf[x.table][c]))
                  \/ /\ x.kind = "flowmap"
                     /\ Call(UpdateFlowmapSource(store, x.id, [x.flow EXCEPT !.density = 3 - @]))
        PROVE  StoreSound(store')
    <3> DEFINE x == store.mapSources[i]
    <3>1. x \in Range(store.mapSources)
      BY DEF Range
    <3> QED
      BY <2>5, <2>6, <2>7, <3>1 DEF Call
  <2>8. ASSUME NEW t \in MapTables,
               \/ \E c \in DOMAIN GeometryOf[t], p \in {"configured", "record-preview"} :
                    Call(AddGeoJsonLayer(store, GeometryPayload(store.selected, t, c, p)))
               \/ \E c \in DOMAIN GeometryOf[t], n \in NumericOf[t], row \in {None, 1} :
                    LET p == FlowPayload(store.selected, t, CoordinateFlow(n, n, c), row)
                    IN \/ Call(AddArcLayer(store, p))
                       \/ row = None /\ Call(AddFlowmapLayer(store, p))
               \/ Call(RefreshGeoJsonSourcesForTable(store, [connection |-> store.selected,
                                                             table |-> t]))
        PROVE  StoreSound(store')
    BY <2>1, <2>2, <2>3, <2>8 DEF Call
  <2>9. ASSUME NEW i \in DOMAIN store.mapLayers,
               \/ Call(RemoveMapLayer(store, store.mapLayers[i].id))
               \/ Call(ToggleMapLayerVisibility(store, store.mapLayers[i].id))
        PROVE  StoreSound(store')
    BY <2>4, <2>9 DEF Call
  <2> QED
    BY <1>3, <2>7, <2>8, <2>9 DEF LayerCalled
<1> QED
  BY <1>1, <1>2, <1>3 DEF StoreNext

-----------------------------------------------------------------------------
(***************************************************************************)
(* The settings of a layer (EditorInv).                                    *)
(*                                                                         *)
(* A step writes the draft and the layer together, leaves the field the    *)
(* user is in, or closes the settings.                                     *)
(***************************************************************************)
EditorInv == EditorTypeOK /\ DraftsShown

(* The layer whose settings are open is there, and so is its source.       *)
LEMMA EditedIs ==
  ASSUME StoreSound(store), EditorTypeOK, expanded # None
  PROVE  /\ expanded \in Ids(store.mapLayers)
         /\ Edited \in Range(store.mapLayers) /\ Edited.kind \in {"geojson", "flowmap", "arc"}
         /\ EditedSource \in Range(store.mapSources)
<1>1. LayersFit(store, {}) /\ LayersHaveSources(store)
  BY DEF StoreSound, StateFits, ReferencesStand
<1>2. expanded \in Ids(store.mapLayers)
  BY DEF EditorTypeOK
<1>3. Edited \in Range(store.mapLayers)
  BY <1>2, GetOf DEF Edited, Has
<1>4. PICK x \in Range(store.mapSources) : x.id = Edited.source
  BY <1>1, <1>3 DEF LayersHaveSources
<1>5. EditedSource \in Range(store.mapSources)
  BY <1>4, GetOf, IdsOf DEF EditedSource
<1> QED
  BY <1>1, <1>2, <1>3, <1>5 DEF LayersFit

(* What a step of the settings may be.                                     *)
Ticked == Gesture \/ UNCHANGED editorSteps
Wrote == expanded # None /\ Ticked /\ \E s : LayersKept(s, store) /\ Write(s)
WroteSource ==
  Ticked /\ \E s : StoreSound(s) /\ s.mapLayers = store.mapLayers /\ WriteSource(s)
Typed ==
  /\ expanded # None
  /\ \E field \in DraftFields(Edited.kind) : \E values : Type(field, values)
Closed ==
  /\ Ticked /\ expanded # None /\ store' = RemoveMapLayer(store, expanded)
  /\ expanded' = None /\ drafts' = << >> /\ hand' = None

(* Each of these keeps the settings as they have to be.                    *)
LEMMA TickedFits ==
  ASSUME EditorTypeOK, Ticked
  PROVE  editorSteps' \in 0..EditorGestures
  BY EditorConstants DEF EditorTypeOK, Ticked, Gesture

(* A step that writes the layer and the draft together keeps both.         *)
LEMMA WroteKeeps ==
  ASSUME StoreSound(store), EditorInv, Wrote
  PROVE  StoreSound(store') /\ EditorInv'
<1>1. PICK s : LayersKept(s, store) /\ Write(s)
  BY DEF Wrote
<1>2. /\ StoreSound(s) /\ Ids(s.mapLayers) = Ids(store.mapLayers)
      /\ store' = s /\ drafts' = Synced(Get(s.mapLayers, expanded)) /\ hand' = None
      /\ expanded' = expanded /\ expanded # None
  BY <1>1 DEF LayersKept, Write, Wrote
<1>3. Edited' = Get(s.mapLayers, expanded)
  BY <1>2 DEF Edited
<1>4. DOMAIN drafts' = DraftFields(Edited'.kind)
      /\ \A f \in DOMAIN drafts' : drafts'[f] = ValueOf(Edited', f)
  BY <1>2, <1>3 DEF Synced
<1>5. expanded' \in Ids(store'.mapLayers) /\ hand' \in {None} \cup DOMAIN drafts'
  BY <1>2, EditedIs DEF EditorInv
<1>6. editorSteps' \in 0..EditorGestures
  BY TickedFits DEF EditorInv, Wrote
<1> QED
  BY <1>2, <1>4, <1>5, <1>6 DEF EditorInv, EditorTypeOK, DraftsShown

(* So does one that writes the source of the layer.                        *)
LEMMA WroteSourceKeeps ==
  ASSUME StoreSound(store), EditorInv, WroteSource
  PROVE  StoreSound(store') /\ EditorInv'
<1>1. PICK s : StoreSound(s) /\ s.mapLayers = store.mapLayers /\ WriteSource(s)
  BY DEF WroteSource
<1>2. /\ StoreSound(store') /\ store'.mapLayers = store.mapLayers
      /\ expanded' = expanded /\ drafts' = drafts /\ hand' = hand
  BY <1>1 DEF WriteSource
<1>3. Edited' = Edited
  BY <1>2 DEF Edited
<1>4. editorSteps' \in 0..EditorGestures
  BY TickedFits DEF EditorInv, WroteSource
<1> QED
  BY <1>2, <1>3, <1>4 DEF EditorInv, EditorTypeOK, DraftsShown

(* So does one that is in the draft alone.                                 *)
LEMMA TypedKeeps ==
  ASSUME StoreSound(store), EditorInv, Typed
  PROVE  StoreSound(store') /\ EditorInv'
<1>0. PICK field \in DraftFields(Edited.kind) : \E values : Type(field, values)
  BY DEF Typed
<1>1. PICK values : Type(field, values)
  BY <1>0
<1>2. PICK v \in values : drafts' = [drafts EXCEPT ![field] = v]
  BY <1>1 DEF Type
<1>3. /\ hand \in {None, field} /\ hand' = field /\ store' = store /\ expanded' = expanded
      /\ expanded # None
  BY <1>1 DEF Type, Typed
<1>4. Edited' = Edited
  BY <1>3 DEF Edited
<1>5. /\ DOMAIN drafts = DraftFields(Edited.kind)
      /\ \A f \in DOMAIN drafts : f = hand \/ drafts[f] = ValueOf(Edited, f)
      /\ expanded \in Ids(store.mapLayers)
  BY <1>3, EditedIs DEF EditorInv, EditorTypeOK, DraftsShown
<1>6. None \notin DraftFields(Edited.kind)
  BY <1>3, EditedIs, NoneIsNoField DEF EditorInv
<1>7. /\ DOMAIN drafts' = DraftFields(Edited.kind)
      /\ \A f \in DOMAIN drafts' : f = field \/ drafts'[f] = drafts[f]
  BY <1>2, <1>5
<1>8. \A f \in DOMAIN drafts' : f = hand' \/ drafts'[f] = ValueOf(Edited', f)
  BY <1>3, <1>4, <1>5, <1>6, <1>7
<1>9. editorSteps' \in 0..EditorGestures
  BY <1>1, TickedFits DEF EditorInv, Type, Ticked
<1>10. EditorTypeOK'
  BY <1>3, <1>4, <1>5, <1>7, <1>9 DEF EditorTypeOK
<1> QED
  BY <1>3, <1>8, <1>10 DEF EditorInv, DraftsShown

(* So does one that closes the settings.                                   *)
LEMMA ClosedKeeps ==
  ASSUME StoreSound(store), EditorInv, Closed
  PROVE  StoreSound(store') /\ EditorInv'
<1>1. StoreSound(store') /\ expanded' = None /\ drafts' = << >> /\ hand' = None
  BY RemoveMapLayerKeeps DEF Closed
<1>2. editorSteps' \in 0..EditorGestures
  BY TickedFits DEF EditorInv, Closed
<1> QED
  BY <1>1, <1>2 DEF EditorInv, EditorTypeOK, DraftsShown

(* What the settings write is told of the layer of its kind alone.         *)
LEMMA UpdateLayerKeeps ==
  ASSUME StoreSound(store), NEW kind \in {"geojson", "arc", "flowmap"}, NEW field, NEW value
  PROVE  LayersKept(UpdateLayer(kind, field, value), store)
<1>1. CASE kind = "geojson"
  BY <1>1, GeoJsonPatchKeeps DEF UpdateLayer
<1>2. CASE kind = "arc"
  BY <1>2, ArcPatchKeeps DEF UpdateLayer
<1>3. CASE kind = "flowmap"
  BY <1>3, FlowmapPatchKeeps DEF UpdateLayer
<1> QED
  BY <1>1, <1>2, <1>3

(* A field that is left, let go of, or written at once.                    *)
LEMMA LeaveKeeps ==
  ASSUME StoreSound(store), EditorInv,
         NEW kind \in {"geojson", "arc", "flowmap"}, NEW field, Leave(kind, field)
  PROVE  StoreSound(store') /\ EditorInv'
<1>1. CASE drafts[field] = ValueOf(Edited, field)
  <2>1. /\ hand' = None /\ store' = store /\ expanded' = expanded /\ drafts' = drafts
        /\ hand = field /\ editorSteps' = editorSteps
    BY <1>1 DEF Leave
  <2>2. Edited' = Edited
    BY <2>1 DEF Edited
  <2> QED
    BY <1>1, <2>1, <2>2 DEF EditorInv, EditorTypeOK, DraftsShown
<1>2. CASE drafts[field] # ValueOf(Edited, field)
  <2>1. Wrote
    BY <1>2, UpdateLayerKeeps DEF Leave, Wrote, At, Ticked
  <2> QED
    BY <2>1, WroteKeeps
<1> QED
  BY <1>1, <1>2

(* A field is left, and what it holds is written.                          *)
LEMMA ReleaseKeeps ==
  ASSUME StoreSound(store), EditorInv,
         NEW kind \in {"geojson", "arc", "flowmap"}, NEW field, Release(kind, field)
  PROVE  StoreSound(store') /\ EditorInv'
<1>1. Wrote
  BY UpdateLayerKeeps DEF Release, Wrote, At, Ticked
<1> QED
  BY <1>1, WroteKeeps

(* A value is chosen.                                                      *)
LEMMA ChooseKeeps ==
  ASSUME StoreSound(store), EditorInv, NEW kind \in {"geojson", "arc", "flowmap"}, NEW field,
         NEW values, Choose(kind, field, values)
  PROVE  StoreSound(store') /\ EditorInv'
<1>1. Wrote
  BY UpdateLayerKeeps DEF Choose, Wrote, At, Ticked, Free
<1> QED
  BY <1>1, WroteKeeps

(* A switch is turned.                                                     *)
LEMMA FlipKeeps ==
  ASSUME StoreSound(store), EditorInv, NEW field, Flip(field)
  PROVE  StoreSound(store') /\ EditorInv'
<1>1. Wrote
  BY FlowmapPatchKeeps DEF Flip, Wrote, At, Ticked, Free
<1> QED
  BY <1>1, WroteKeeps

(* A column of a flow is set.                                              *)
LEMMA SetFlowKeeps ==
  ASSUME StoreSound(store), EditorInv, NEW field, NEW value, SetFlow(field, value)
  PROVE  StoreSound(store') /\ EditorInv'
<1> DEFINE flow == [EditedSource.flow EXCEPT ![field] = value]
           s == UpdateFlowmapSource(store, EditedSource.id, flow)
<1>1. StoreSound(s)
  BY FlowKeeps
<1>2. s.mapLayers = store.mapLayers
  BY DEF UpdateFlowmapSource, OfSource
<1>3. WriteSource(s) /\ Ticked
  BY DEF SetFlow, Ticked, Free
<1> HIDE DEF s
<1>4. WroteSource
  BY <1>1, <1>2, <1>3 DEF WroteSource
<1> QED
  BY <1>4, WroteSourceKeeps

(* A field is typed in.                                                    *)
LEMMA TypeKeeps ==
  ASSUME StoreSound(store), EditorInv, NEW kind, At(kind), NEW field \in DraftFields(kind),
         NEW values, Type(field, values)
  PROVE  StoreSound(store') /\ EditorInv'
<1>1. Typed
  BY DEF Typed, At
<1> QED
  BY <1>1, TypedKeeps

(* The list of layers: settings are opened, closed or shown again.         *)
LEMMA ListedKeeps ==
  ASSUME StoreSound(store), EditorInv,
         \/ \E y \in Range(store.mapLayers) : ToggleSettings(y.id)
         \/ ToggleVisible \/ RemoveEdited \/ ShownAgain \/ PreviewEmptied \/ FlipTooltip
  PROVE  StoreSound(store') /\ EditorInv'
<1>1. CASE \E y \in Range(store.mapLayers) : ToggleSettings(y.id)
  <2>1. PICK y \in Range(store.mapLayers) : ToggleSettings(y.id)
    BY <1>1
  <2>2. /\ store' = store /\ expanded' = (IF expanded = y.id THEN None ELSE y.id)
        /\ hand' = None /\ Ticked
        /\ drafts' = IF expanded' = None THEN << >> ELSE Synced(Get(store.mapLayers, y.id))
    BY <2>1 DEF ToggleSettings, Free, Ticked
  <2>3. y.id \in Ids(store.mapLayers)
    BY IdsOf DEF Has
  <2>4. editorSteps' \in 0..EditorGestures
    BY <2>2, TickedFits DEF EditorInv
  <2>5. CASE expanded' = None
    BY <2>2, <2>4, <2>5 DEF EditorInv, EditorTypeOK, DraftsShown
  <2>6. CASE expanded' # None
    <3>1. expanded' = y.id /\ Edited' = Get(store.mapLayers, y.id) /\ drafts' = Synced(Edited')
      BY <2>2, <2>6 DEF Edited
    <3>2. DOMAIN drafts' = DraftFields(Edited'.kind)
          /\ \A f \in DOMAIN drafts' : drafts'[f] = ValueOf(Edited', f)
      BY <3>1 DEF Synced
    <3> QED
      BY <2>2, <2>3, <2>4, <2>6, <3>1, <3>2 DEF EditorInv, EditorTypeOK, DraftsShown
  <2> QED
    BY <2>2, <2>5, <2>6
<1>2. CASE ToggleVisible
  <2>1. Wrote
    BY <1>2, VisibilityKeeps DEF ToggleVisible, Wrote, Ticked, Free
  <2> QED
    BY <2>1, WroteKeeps
<1>3. CASE RemoveEdited
  <2>1. Closed
    BY <1>3 DEF RemoveEdited, Closed, Ticked, Free
  <2> QED
    BY <2>1, ClosedKeeps
<1>4. CASE ShownAgain
  <2> DEFINE s == OfLayer(store, expanded, {"arc"}, LAMBDA y : [y EXCEPT !.visible = TRUE])
  <2>1. LayersKept(s, store)
    BY ShownKeeps
  <2>2. Write(s) /\ Ticked /\ expanded # None
    BY <1>4 DEF ShownAgain, Ticked, Free, At
  <2> HIDE DEF s
  <2>3. Wrote
    BY <2>1, <2>2 DEF Wrote
  <2> QED
    BY <2>3, WroteKeeps
<1>5. CASE PreviewEmptied
  <2>1. Closed
    BY <1>5 DEF PreviewEmptied, Closed, Ticked, At
  <2> QED
    BY <2>1, ClosedKeeps
<1>6. CASE FlipTooltip
  <2>1. expanded # None /\ Edited.kind \in {"geojson", "arc", "flowmap"}
    BY <1>6, EditedIs DEF FlipTooltip, EditorInv
  <2>2. Wrote
    BY <1>6, <2>1, UpdateLayerKeeps DEF FlipTooltip, Wrote, Ticked, Free
  <2> QED
    BY <2>2, WroteKeeps
<1> QED
  BY <1>1, <1>2, <1>3, <1>4, <1>5, <1>6

(* The setup of a flow layer.                                              *)
LEMMA SetupKeeps ==
  ASSUME StoreSound(store), EditorInv,
         TypeName \/ CommitLayerName \/ ChooseModes \/ ChooseStart \/ ChooseEnd \/ ChooseDensity
  PROVE  StoreSound(store') /\ EditorInv'
<1>1. CASE TypeName
  <2>1. Typed
    <3>1. expanded # None /\ Type("name", Names)
      BY <1>1 DEF TypeName
    <3>2. "name" \in DraftFields(Edited.kind)
      BY DEF DraftFields
    <3> QED
      BY <3>1, <3>2 DEF Typed
  <2> QED
    BY <2>1, TypedKeeps
<1>2. CASE CommitLayerName
  BY <1>2, LeaveKeeps DEF CommitLayerName
<1>3. CASE ChooseModes \/ ChooseStart \/ ChooseEnd \/ ChooseDensity
  BY <1>3, SetFlowKeeps DEF ChooseModes, ChooseStart, ChooseEnd, ChooseDensity
<1> QED
  BY <1>1, <1>2, <1>3

(* The geometry column of a layer.                                         *)
LEMMA ColumnSelectedKeeps ==
  ASSUME StoreSound(store), EditorInv, SelectGeometryColumn
  PROVE  StoreSound(store') /\ EditorInv'
<1>1. PICK c : WriteSource(UpdateGeoJsonColumn(store, EditedSource.id, c,
                                               GeometryOf[EditedSource.table][c]))
  BY DEF SelectGeometryColumn
<1> DEFINE s == UpdateGeoJsonColumn(store, EditedSource.id, c, GeometryOf[EditedSource.table][c])
<1>2. EditedSource \in Range(store.mapSources)
  BY EditedIs DEF SelectGeometryColumn, EditorInv, At
<1>3. StoreSound(s)
  BY <1>2, ColumnOfSourceKeeps
<1>4. s.mapLayers = store.mapLayers
  BY DEF UpdateGeoJsonColumn, OfSource
<1>5. Ticked
  BY DEF SelectGeometryColumn, Ticked, Free
<1>6. WriteSource(s)
  BY <1>1
<1> HIDE DEF s
<1>7. WroteSource
  BY <1>3, <1>4, <1>5, <1>6 DEF WroteSource
<1> QED
  BY <1>7, WroteSourceKeeps

(* The settings of each kind of layer.                                     *)
LEMMA EditGeoJsonKeeps ==
  ASSUME StoreSound(store), EditorInv, EditGeoJson
  PROVE  StoreSound(store') /\ EditorInv'
<1>1. CASE TypeFillColor
  <2>1. At("geojson") /\ "fillColor" \in DraftFields("geojson") /\ \E values : Type("fillColor", values)
    BY <1>1 DEF TypeFillColor, DraftFields
  <2> QED
    BY <2>1, TypeKeeps
<1>2. CASE DragFillOpacity
  <2>1. At("geojson") /\ "fillOpacity" \in DraftFields("geojson") /\ \E values : Type("fillOpacity", values)
    BY <1>2 DEF DragFillOpacity, DraftFields
  <2> QED
    BY <2>1, TypeKeeps
<1>3. CASE TypeStrokeColor
  <2>1. At("geojson") /\ "strokeColor" \in DraftFields("geojson") /\ \E values : Type("strokeColor", values)
    BY <1>3 DEF TypeStrokeColor, DraftFields
  <2> QED
    BY <2>1, TypeKeeps
<1>4. CASE DragStrokeOpacity
  <2>1. /\ At("geojson") /\ "strokeOpacity" \in DraftFields("geojson")
        /\ \E values : Type("strokeOpacity", values)
    BY <1>4 DEF DragStrokeOpacity, DraftFields
  <2> QED
    BY <2>1, TypeKeeps
<1>5. CASE DragStrokeWidth
  <2>1. At("geojson") /\ "strokeWidth" \in DraftFields("geojson") /\ \E values : Type("strokeWidth", values)
    BY <1>5 DEF DragStrokeWidth, DraftFields
  <2> QED
    BY <2>1, TypeKeeps
<1>6. CASE DragPointRadius
  <2>1. At("geojson") /\ "pointRadius" \in DraftFields("geojson") /\ \E values : Type("pointRadius", values)
    BY <1>6 DEF DragPointRadius, DraftFields
  <2> QED
    BY <2>1, TypeKeeps
<1>7. CASE LeaveFillColor \/ LeaveStrokeColor
  BY <1>7, LeaveKeeps DEF LeaveFillColor, LeaveStrokeColor
<1>8. CASE ReleaseFillOpacity \/ ReleaseStrokeOpacity \/ ReleaseStrokeWidth \/ ReleasePointRadius
  BY <1>8, ReleaseKeeps DEF ReleaseFillOpacity, ReleaseStrokeOpacity, ReleaseStrokeWidth, ReleasePointRadius
<1>9. CASE ChooseGeoJsonIcon
  BY <1>9, ChooseKeeps DEF ChooseGeoJsonIcon
<1>10. CASE SelectGeometryColumn
  BY <1>10, ColumnSelectedKeeps
<1> QED
  BY <1>1, <1>2, <1>3, <1>4, <1>5, <1>6, <1>7, <1>8, <1>9, <1>10 DEF EditGeoJson

(* The settings of an arc layer.                                           *)
LEMMA EditArcKeeps ==
  ASSUME StoreSound(store), EditorInv, EditArc
  PROVE  StoreSound(store') /\ EditorInv'
<1>1. CASE TypeArcColor
  <2>1. At("arc") /\ "color" \in DraftFields("arc") /\ \E values : Type("color", values)
    BY <1>1 DEF TypeArcColor, DraftFields
  <2> QED
    BY <2>1, TypeKeeps
<1>2. CASE DragArcOpacity
  <2>1. At("arc") /\ "opacity" \in DraftFields("arc") /\ \E values : Type("opacity", values)
    BY <1>2 DEF DragArcOpacity, DraftFields
  <2> QED
    BY <2>1, TypeKeeps
<1>3. CASE DragArcWidth
  <2>1. At("arc") /\ "width" \in DraftFields("arc") /\ \E values : Type("width", values)
    BY <1>3 DEF DragArcWidth, DraftFields
  <2> QED
    BY <2>1, TypeKeeps
<1>4. CASE LeaveArcColor
  BY <1>4, LeaveKeeps DEF LeaveArcColor
<1>5. CASE ReleaseArcOpacity \/ ReleaseArcWidth
  BY <1>5, ReleaseKeeps DEF ReleaseArcOpacity, ReleaseArcWidth
<1>6. CASE ChooseArcIcon
  BY <1>6, ChooseKeeps DEF ChooseArcIcon
<1> QED
  BY <1>1, <1>2, <1>3, <1>4, <1>5, <1>6 DEF EditArc

(* The settings of a flow layer.                                           *)
LEMMA EditFlowmapKeeps ==
  ASSUME StoreSound(store), EditorInv, EditFlowmap
  PROVE  StoreSound(store') /\ EditorInv'
<1>1. CASE DragThickness
  <2>1. At("flowmap") /\ "thickness" \in DraftFields("flowmap") /\ \E values : Type("thickness", values)
    BY <1>1 DEF DragThickness, DraftFields
  <2> QED
    BY <2>1, TypeKeeps
<1>2. CASE DragTopFlows
  <2>1. At("flowmap") /\ "topFlows" \in DraftFields("flowmap") /\ \E values : Type("topFlows", values)
    BY <1>2 DEF DragTopFlows, DraftFields
  <2> QED
    BY <2>1, TypeKeeps
<1>3. CASE ReleaseThickness \/ ReleaseTopFlows
  BY <1>3, ReleaseKeeps DEF ReleaseThickness, ReleaseTopFlows
<1>4. CASE ChooseRenderMode \/ ChooseScheme \/ ChooseFlowIcon
  BY <1>4, ChooseKeeps DEF ChooseRenderMode, ChooseScheme, ChooseFlowIcon
<1>5. CASE FlipLocations \/ FlipTotals \/ FlipLabels \/ FlipClustering \/ FlipDark
  BY <1>5, FlipKeeps DEF FlipLocations, FlipTotals, FlipLabels, FlipClustering, FlipDark
<1> QED
  BY <1>1, <1>2, <1>3, <1>4, <1>5 DEF EditFlowmap

(* Every step of the settings keeps them and the store.                    *)
LEMMA EditorNextKeeps ==
  ASSUME StoreSound(store), EditorInv, EditorNext
  PROVE  StoreSound(store') /\ EditorInv'
  BY ListedKeeps, SetupKeeps, EditGeoJsonKeeps, EditArcKeeps, EditFlowmapKeeps DEF EditorNext

(* At first no settings are open.                                          *)
LEMMA EditorStarts ==
  ASSUME EditorInit
  PROVE  EditorInv
  BY EditorConstants DEF EditorInit, EditorInv, EditorTypeOK, DraftsShown

-----------------------------------------------------------------------------
(***************************************************************************)
(* The page around the store (PageInv).                                    *)
(*                                                                         *)
(* Every step of the page ends with its effects, so what they establish    *)
(* for any store and any panel of the right type is all a step has to be   *)
(* asked: EffectsStand goes through them in their order, and RenderStands  *)
(* leaves to each step the store it takes on and the catalogue it changes. *)
(* What has to be carried from one step to the next is the catalogue's     *)
(* owner, and that a running request is for a connection the server knows. *)
(***************************************************************************)

PanelFields ==
  {"schemas", "tables", "metadata", "expanded", "loadingSchemas", "loadingTables", "reading",
   "failed", "restored", "opened", "active", "selection", "located", "locating", "analysed",
   "checked", "checks", "late"}
PanelFits(p) ==
  /\ DOMAIN p = PanelFields /\ DOMAIN p.metadata = MapTables /\ DOMAIN p.tables = Schemas
  /\ p.expanded \subseteq Schemas /\ p.loadingTables \subseteq Schemas
  /\ p.loadingSchemas \in BOOLEAN /\ p.late \in BOOLEAN
  /\ \A id \in p.checks : \E x \in p.checked.sources : x.id = id
OwnTo(p, conn) ==
  /\ \A t \in MapTables : p.metadata[t] \in {None, conn}
  /\ ~p.late => /\ p.schemas # None => p.schemas.of = conn
                /\ \A n \in Schemas : p.tables[n] \in {None, conn}
PanelStarts(p, conn) == PanelFits(p) /\ OwnTo(p, conn)

(* A step that leaves the catalogue and the checks.                        *)
SameCatalog(q, p) ==
  /\ DOMAIN q = DOMAIN p /\ q.metadata = p.metadata /\ q.tables = p.tables
  /\ q.schemas = p.schemas /\ q.expanded = p.expanded /\ q.loadingTables = p.loadingTables
  /\ q.late = p.late /\ q.checked = p.checked /\ q.checks = p.checks
  /\ q.loadingSchemas \in BOOLEAN

(* A panel with the same catalogue is of the same connection.              *)
LEMMA SameCatalogStarts ==
  ASSUME NEW p, NEW q, NEW conn, PanelStarts(p, conn), SameCatalog(q, p)
  PROVE  PanelStarts(q, conn)
  BY DEF PanelStarts, PanelFits, OwnTo, SameCatalog

(* A catalogue that is cleared is of any connection.                       *)
LEMMA ClearedStarts ==
  ASSUME NEW p, PanelFits(p), NEW conn
  PROVE  PanelStarts(Cleared(p), conn)
<1> DEFINE q == Cleared(p)
<1>1. /\ DOMAIN q = PanelFields /\ q.schemas = None /\ q.tables = [n \in Schemas |-> None]
      /\ q.metadata = [t \in MapTables |-> None] /\ q.expanded = {} /\ q.loadingTables = {}
  BY DEF Cleared, PanelFits, PanelFields
<1>2. q.loadingSchemas = FALSE /\ q.late = FALSE /\ q.checks = p.checks /\ q.checked = p.checked
  BY DEF Cleared, PanelFits, PanelFields
<1> HIDE DEF q
<1>3. PanelFits(q)
  BY <1>1, <1>2 DEF PanelFits
<1>4. OwnTo(q, conn)
  BY <1>1 DEF OwnTo
<1> QED
  BY <1>3, <1>4 DEF PanelStarts, q

(* What is active or selected on the map is there.                         *)
ActiveThere(s, p) ==
  /\ p.active = None <=> OwnLayers(s) = << >>
  /\ p.active # None => Has(OwnLayers(s), p.active)
SelectionThere(s, p) == p.selection # None => Has(OwnLayers(s), p.selection.layer)
ReadingOwn(s, p) == p.reading # None => p.reading.conn = s.selected

(* Another connection starts with a catalogue that is cleared.             *)
LEMMA ClearForeignStarts ==
  ASSUME NEW s, NEW p, PanelStarts(p, store.selected), NEW swapped
  PROVE  PanelStarts(ClearForeign(s, p, swapped), s.selected)
<1> DEFINE moved == s.selected # store.selected
           q == IF moved \/ (swapped /\ ~Works(s)) THEN Cleared(p) ELSE p
           r == IF moved THEN [q EXCEPT !.active = None, !.selection = None] ELSE q
<1>1. ClearForeign(s, p, swapped) = r
  BY DEF ClearForeign
<1>2. PanelStarts(q, s.selected)
  BY ClearedStarts DEF PanelStarts
<1> HIDE DEF q
<1>3. SameCatalog(r, q)
  BY <1>2 DEF PanelStarts, PanelFits, PanelFields, SameCatalog
<1> HIDE DEF r
<1> QED
  BY <1>1, <1>2, <1>3, SameCatalogStarts

(* The layers of the selected connection.                                  *)
LEMMA OwnLayersFit ==
  ASSUME NEW s, StoreSound(s)
  PROVE  /\ ListFits(OwnLayers(s)) /\ None \notin Ids(OwnLayers(s))
         /\ Range(OwnLayers(s)) = {y \in Range(s.mapLayers) : y.connection = s.selected}
<1>1. ListFits(s.mapLayers) /\ LayersFit(s, {}) /\ s.made \in Nat
  BY DEF StoreSound, StateFits, LayersFit
<1>2. /\ ListFits(OwnLayers(s))
      /\ Range(OwnLayers(s)) = {y \in Range(s.mapLayers) : y.connection = s.selected}
  BY <1>1, OnlyFits DEF OwnLayers
<1>3. \A y \in Range(OwnLayers(s)) : y.id \in Int
  BY <1>1, <1>2 DEF LayersFit
<1>4. \A id \in Ids(OwnLayers(s)) : id \in Int
  BY <1>3, IdsOf DEF Has
<1> QED
  BY <1>2, <1>4, StoreConstants

(* Some layer of the connection is active when there is one.               *)
LEMMA ChooseActiveStarts ==
  ASSUME NEW s, StoreSound(s), NEW p, NEW conn, PanelStarts(p, conn)
  PROVE  PanelStarts(ChooseActive(s, p), conn) /\ ActiveThere(s, ChooseActive(s, p))
<1> DEFINE l == OwnLayers(s)
           q == ChooseActive(s, p)
<1>1. ListFits(l) /\ None \notin Ids(l)
  BY OwnLayersFit
<1>2. l # << >> => l[1] \in Range(l) /\ First(l) = l[1].id
  BY <1>1, ListBasics DEF First, Range
<1>3. l = << >> => First(l) = None /\ Ids(l) = {}
  BY DEF First, Ids
<1>4. q = IF Has(l, p.active) THEN p ELSE [p EXCEPT !.active = First(l)]
  BY DEF ChooseActive
<1> HIDE DEF l, q
<1>5. l # << >> => Has(l, First(l))
  BY <1>2, IdsOf
<1>6. SameCatalog(q, p) /\ q.active = (IF Has(l, p.active) THEN p.active ELSE First(l))
  BY <1>4 DEF PanelStarts, PanelFits, PanelFields, SameCatalog
<1>7. ActiveThere(s, q)
  BY <1>1, <1>3, <1>5, <1>6 DEF ActiveThere, l, Has
<1> QED
  BY <1>6, <1>7, SameCatalogStarts DEF q

(* An object of a layer that is gone is not selected.                      *)
LEMMA KeepSelectionStarts ==
  ASSUME NEW s, NEW p, NEW conn, PanelStarts(p, conn), ActiveThere(s, p)
  PROVE  LET q == KeepSelection(s, p)
         IN PanelStarts(q, conn) /\ ActiveThere(s, q) /\ SelectionThere(s, q)
<1> DEFINE q == KeepSelection(s, p)
<1>1. /\ SameCatalog(q, p) /\ q.active = p.active
      /\ q.selection = IF p.selection # None /\ ~Has(OwnLayers(s), p.selection.layer) THEN None
                       ELSE p.selection
  BY DEF PanelStarts, PanelFits, PanelFields, SameCatalog, KeepSelection
<1> HIDE DEF q
<1>2. ActiveThere(s, q) /\ SelectionThere(s, q)
  BY <1>1 DEF ActiveThere, SelectionThere
<1> QED
  BY <1>1, <1>2, SameCatalogStarts DEF q

(* The selection of an earlier page is loaded, and metadata is read.       *)
LEMMA ReadStarts ==
  ASSUME NEW s, NEW p, NEW conn, PanelStarts(p, conn), ActiveThere(s, p), SelectionThere(s, p)
  PROVE  LET q == [p EXCEPT !.restored = RestoreKey(s), !.loadingSchemas = @ \/ MustRestore(s, p)]
             r == ReadMetadata(s, q)
         IN PanelStarts(r, conn) /\ ActiveThere(s, r) /\ SelectionThere(s, r) /\ ReadingOwn(s, r)
<1> DEFINE q == [p EXCEPT !.restored = RestoreKey(s), !.loadingSchemas = @ \/ MustRestore(s, p)]
           t == SourceTable(s)
           wanted == /\ t # None /\ Selected(s) # None
                     /\ SchemaOf[t] \in SelectedNames(s, s.selected) /\ q.tables[SchemaOf[t]] # None
                     /\ q.metadata[t] = None /\ q.failed # ReadingOn(s, q)
           reading == IF wanted THEN [conn |-> s.selected, table |-> t] ELSE None
           failed == IF q.failed = ReadingOn(s, q) THEN q.failed ELSE None
           r == [q EXCEPT !.reading = reading, !.failed = failed]
<1>1. SameCatalog(q, p) /\ q.active = p.active /\ q.selection = p.selection
  BY DEF PanelStarts, PanelFits, PanelFields, SameCatalog
<1>2. PanelStarts(q, conn) /\ ActiveThere(s, q) /\ SelectionThere(s, q)
  BY <1>1, SameCatalogStarts DEF ActiveThere, SelectionThere
<1>3. r = ReadMetadata(s, q)
  BY DEF ReadMetadata
<1>4. reading # None => reading.conn = s.selected
  OBVIOUS
<1> HIDE DEF q, reading, failed
<1>5. /\ SameCatalog(r, q) /\ r.active = q.active /\ r.selection = q.selection
      /\ r.reading = reading
  BY <1>2 DEF PanelStarts, PanelFits, PanelFields, SameCatalog
<1> HIDE DEF r
<1>6. PanelStarts(r, conn) /\ ActiveThere(s, r) /\ SelectionThere(s, r) /\ ReadingOwn(s, r)
  BY <1>2, <1>4, <1>5, SameCatalogStarts DEF ActiveThere, SelectionThere, ReadingOwn
<1> QED
  BY <1>3, <1>6 DEF q

(* The dock follows the active layer.                                      *)
DockFollows(s, p) ==
  p.analysed # None /\ p.active # None /\ p.analysed.layer = p.active =>
    p.analysed = LayerSource(s, Get(s.mapLayers, p.active))

(* What the dock shows of the active layer is the layer as it is.          *)
LEMMA FollowStarts ==
  ASSUME NEW s, NEW p, NEW conn, PanelStarts(p, conn), ActiveThere(s, p), SelectionThere(s, p),
         ReadingOwn(s, p)
  PROVE  LET q == FollowLayer(s, FollowTable(s, p))
         IN /\ PanelStarts(q, conn) /\ ActiveThere(s, q) /\ SelectionThere(s, q)
            /\ ReadingOwn(s, q) /\ DockFollows(s, q)
<1> DEFINE r == FollowTable(s, p)
           q == FollowLayer(s, r)
<1>1. SameCatalog(r, p) /\ r.active = p.active /\ r.selection = p.selection /\ r.reading = p.reading
  BY DEF PanelStarts, PanelFits, PanelFields, SameCatalog, FollowTable
<1> HIDE DEF r
<1>2. /\ PanelStarts(r, conn) /\ ActiveThere(s, r) /\ SelectionThere(s, r) /\ ReadingOwn(s, r)
  BY <1>1, SameCatalogStarts DEF ActiveThere, SelectionThere, ReadingOwn
<1> DEFINE follows == r.analysed # None /\ r.active # None /\ r.analysed.layer = r.active
           source == LayerSource(s, Get(s.mapLayers, r.active))
<1>3. q = IF follows THEN [r EXCEPT !.analysed = source] ELSE r
  BY DEF FollowLayer
<1> HIDE DEF q, source
<1>4. /\ SameCatalog(q, r) /\ q.active = r.active /\ q.selection = r.selection
      /\ q.reading = r.reading /\ q.analysed = (IF follows THEN source ELSE r.analysed)
  BY <1>2, <1>3 DEF PanelStarts, PanelFits, PanelFields, SameCatalog
<1>5. DockFollows(s, q)
  BY <1>4 DEF DockFollows, source
<1>6. /\ PanelStarts(q, conn) /\ ActiveThere(s, q) /\ SelectionThere(s, q) /\ ReadingOwn(s, q)
  BY <1>2, <1>4, SameCatalogStarts DEF ActiveThere, SelectionThere, ReadingOwn
<1> QED
  BY <1>5, <1>6 DEF q, r

(* The checks that run are of the previews as they are.                    *)
ChecksStand(s, p) ==
  \A id \in p.checks : \E x \in PreviewSources(s) : x.id = id /\ x \in p.checked.sources
PanelStands(s, p) ==
  /\ PanelStarts(p, s.selected) /\ ActiveThere(s, p) /\ SelectionThere(s, p) /\ ReadingOwn(s, p)
  /\ DockFollows(s, p) /\ ChecksStand(s, p)

(* Checks are those of the previews they were started for.                 *)
LEMMA CheckPreviewsStarts ==
  ASSUME NEW s, NEW p, PanelStarts(p, s.selected), ActiveThere(s, p), SelectionThere(s, p),
         ReadingOwn(s, p), DockFollows(s, p), NEW replaced
  PROVE  PanelStands(s, CheckPreviews(s, p, replaced))
<1> DEFINE sources == PreviewSources(s)
           key == [conn |-> Selected(s), sources |-> sources]
           checks == IF Works(s) THEN {x.id : x \in sources} ELSE {}
           q == CheckPreviews(s, p, replaced)
<1>1. key.sources = sources
  OBVIOUS
<1>2. checks = IF Works(s) THEN {x.id : x \in key.sources} ELSE {}
  OBVIOUS
<1>3. q = IF key = p.checked /\ ~replaced THEN p ELSE [p EXCEPT !.checked = key, !.checks = checks]
  BY DEF CheckPreviews
<1>4. \A id \in checks : \E x \in sources : x.id = id
  OBVIOUS
<1> HIDE DEF q, checks, sources, key
<1>5. CASE q = p /\ key = p.checked
  <2>1. ChecksStand(s, p)
    BY <1>1, <1>5 DEF PanelStarts, PanelFits, ChecksStand, sources
  <2> QED
    BY <1>5, <2>1 DEF PanelStands, q
<1>6. CASE q = [p EXCEPT !.checked = key, !.checks = checks]
  <2>1. /\ DOMAIN q = DOMAIN p /\ q.checked = key /\ q.checks = checks
        /\ q.metadata = p.metadata /\ q.tables = p.tables /\ q.schemas = p.schemas
        /\ q.expanded = p.expanded /\ q.loadingTables = p.loadingTables
        /\ q.late = p.late /\ q.loadingSchemas = p.loadingSchemas
    BY <1>6 DEF PanelStarts, PanelFits, PanelFields
  <2>2. /\ q.active = p.active /\ q.selection = p.selection /\ q.reading = p.reading
        /\ q.analysed = p.analysed
    BY <1>6 DEF PanelStarts, PanelFits, PanelFields
  <2>3. PanelStarts(q, s.selected)
    BY <1>1, <1>4, <2>1 DEF PanelStarts, PanelFits, OwnTo
  <2>4. ActiveThere(s, q) /\ SelectionThere(s, q) /\ ReadingOwn(s, q) /\ DockFollows(s, q)
    BY <2>2 DEF ActiveThere, SelectionThere, ReadingOwn, DockFollows
  <2>5. ChecksStand(s, q)
    BY <1>1, <1>4, <2>1 DEF ChecksStand, sources
  <2> QED
    BY <2>3, <2>4, <2>5 DEF PanelStands, q
<1> QED
  BY <1>3, <1>5, <1>6

(* What the effects make of any page stands with the store they find.      *)
LEMMA EffectsStand ==
  ASSUME NEW s, StoreSound(s), NEW p0, PanelStarts(p0, store.selected), NEW replaced
  PROVE  PanelStands(s, Effects(s, p0, replaced))
<1> DEFINE swapped == replaced \/ Selected(s) # Selected(store)
           a == ClearForeign(s, p0, swapped)
           b == ChooseActive(s, a)
           p == KeepSelection(s, b)
           q == [p EXCEPT !.restored = RestoreKey(s), !.loadingSchemas = @ \/ MustRestore(s, p)]
           r == ReadMetadata(s, q)
           u == FollowLayer(s, FollowTable(s, r))
<1>1. Effects(s, p0, replaced) = CheckPreviews(s, u, replaced)
  BY DEF Effects
<1> HIDE DEF swapped
<1>2. PanelStarts(a, s.selected)
  BY ClearForeignStarts
<1> HIDE DEF a
<1>3. PanelStarts(b, s.selected) /\ ActiveThere(s, b)
  BY <1>2, ChooseActiveStarts
<1> HIDE DEF b
<1>4. PanelStarts(p, s.selected) /\ ActiveThere(s, p) /\ SelectionThere(s, p)
  BY <1>3, KeepSelectionStarts
<1> HIDE DEF p
<1>5. PanelStarts(r, s.selected) /\ ActiveThere(s, r) /\ SelectionThere(s, r) /\ ReadingOwn(s, r)
  BY <1>4, ReadStarts
<1> HIDE DEF r, q
<1>6. /\ PanelStarts(u, s.selected) /\ ActiveThere(s, u) /\ SelectionThere(s, u)
      /\ ReadingOwn(s, u) /\ DockFollows(s, u)
  BY <1>5, FollowStarts
<1> HIDE DEF u
<1> QED
  BY <1>1, <1>6, CheckPreviewsStarts

(* The requests, and what the server shows of the connections.             *)
FlightFields ==
  {"kind", "conn", "table", "schema", "names", "all", "outer", "open", "layer", "source",
   "pattern", "n"}
FlightFits(f, sh) ==
  /\ DOMAIN f = FlightFields /\ f.names \subseteq Schemas
  /\ f.kind \in {"schemas", "all", "configs", "save"} => f.conn \in DOMAIN sh
FlightsFit(fs, sh) == \A f \in fs : FlightFits(f, sh)
ShownFits(s, sh) ==
  /\ Ids(s.connections) \cup ServerIds \subseteq DOMAIN sh
  /\ \A c \in DOMAIN sh : sh[c] \subseteq Schemas

PageInv ==
  /\ PanelStands(store, panel) /\ FlightsFit(flights, shown) /\ ShownFits(store, shown)
  /\ panelSteps \in 0..PanelGestures

(* A store that adds no connection but those of the server.                *)
TakesOn(s) ==
  StoreSound(s) /\ Ids(s.connections) \subseteq Ids(store.connections) \cup ServerIds

(* What is shown of each connection is still of one that is there.         *)
LEMMA TakesOnShown ==
  ASSUME NEW s, TakesOn(s), NEW sh, ShownFits(store, sh)
  PROVE  ShownFits(s, sh)
  BY DEF TakesOn, ShownFits

(* A view that is gone is deselected.                                      *)
LEMMA VanishedKeeps ==
  ASSUME NEW s, StoreSound(s)
  PROVE  /\ StoreSound(DropVanishedView(s))
         /\ DropVanishedView(s).connections = s.connections
         /\ DropVanishedView(s).selected = s.selected
         /\ DropVanishedView(s).mapLayers = s.mapLayers
         /\ DropVanishedView(s).mapSources = s.mapSources
         /\ DropVanishedView(s).views = s.views
<1> DEFINE t == SetSelectedTable(s, s.selected, None)
<1>1. StoreSound(t)
  BY RememberedKeeps
<1>2. /\ t.connections = s.connections /\ t.selected = s.selected
      /\ t.mapLayers = s.mapLayers /\ t.mapSources = s.mapSources /\ t.views = s.views
  BY DEF SetSelectedTable
<1> HIDE DEF t
<1>3. DropVanishedView(s) = s \/ DropVanishedView(s) = t
  BY DEF DropVanishedView, t
<1> QED
  BY <1>1, <1>2, <1>3

(* A connection that works is in the list.                                 *)
LEMMA SelectedIs ==
  ASSUME NEW s, Works(s)
  PROVE  s.selected \in Ids(s.connections)
  BY IdsOf DEF Works, Has

(* A request for schemas is for a connection that is there.                *)
LEMMA SchemasFlightFits ==
  ASSUME NEW s, Works(s), NEW sh, ShownFits(s, sh), NEW all
  PROVE  FlightFits(SchemasFlight(s, all), sh)
<1>1. s.selected \in DOMAIN sh
  BY SelectedIs DEF ShownFits
<1> QED
  BY <1>1 DEF FlightFits, SchemasFlight, Flight, FlightFields

(* A request for the catalogue is for a connection that is there.          *)
LEMMA RestoredFits ==
  ASSUME NEW s, NEW p, NEW fs, NEW sh, FlightsFit(fs, sh), ShownFits(s, sh)
  PROVE  FlightsFit(Restored(s, p, fs), sh)
<1>1. CASE MustRestore(s, p)
  <2>1. Works(s)
    BY <1>1 DEF MustRestore, RestoreKey
  <2>2. FlightFits(SchemasFlight(s, FALSE), sh)
    BY <2>1, SchemasFlightFits
  <2> QED
    BY <1>1, <2>2 DEF FlightsFit, Restored
<1>2. CASE ~MustRestore(s, p)
  BY <1>2 DEF Restored
<1> QED
  BY <1>1, <1>2

(* A page that is rendered stands.                                         *)
LEMMA RenderKeeps ==
  ASSUME NEW s0, StoreSound(s0), NEW p, PanelStarts(p, store.selected), NEW fs, NEW sh,
         FlightsFit(fs, sh), ShownFits(s0, sh), NEW replaced, Render(s0, p, fs, replaced)
  PROVE  /\ StoreSound(store') /\ PanelStands(store', panel')
         /\ FlightsFit(flights', sh) /\ ShownFits(store', sh)
         /\ store'.selected = s0.selected /\ store'.connections = s0.connections
<1> DEFINE s == DropVanishedView(s0)
<1>1. StoreSound(s) /\ s.connections = s0.connections /\ s.selected = s0.selected
  BY VanishedKeeps
<1>2. store' = s /\ panel' = Effects(s, p, replaced) /\ flights' = Restored(s, p, fs)
  BY DEF Render
<1> HIDE DEF s
<1>3. ShownFits(s, sh)
  BY <1>1 DEF ShownFits
<1>4. PanelStands(s, Effects(s, p, replaced))
  BY <1>1, EffectsStand
<1>5. FlightsFit(Restored(s, p, fs), sh)
  BY <1>3, RestoredFits
<1> QED
  BY <1>1, <1>2, <1>3, <1>4, <1>5

(* So does one that is rendered by a step that leaves what is shown.       *)
PageStood == StoreSound(store') /\ PageInv'
Paced == panelSteps' \in 0..PanelGestures

(* A page that starts as it has to stands when it is rendered.             *)
LEMMA RenderStands ==
  ASSUME PageInv, NEW s0, TakesOn(s0), NEW p, PanelStarts(p, store.selected), NEW fs,
         FlightsFit(fs, shown), NEW replaced, Render(s0, p, fs, replaced), shown' = shown, Paced
  PROVE  PageStood
<1>1. ShownFits(s0, shown) /\ StoreSound(s0)
  BY TakesOnShown DEF PageInv, TakesOn
<1>2. /\ StoreSound(store') /\ PanelStands(store', panel')
      /\ FlightsFit(flights', shown) /\ ShownFits(store', shown)
  BY <1>1, RenderKeeps
<1> QED
  BY <1>2 DEF PageStood, PageInv, Paced

(* The page as it is starts as it has to.                                  *)
LEMMA PageStarts ==
  ASSUME PageInv
  PROVE  PanelStarts(panel, store.selected) /\ FlightsFit(flights, shown)
  BY DEF PageInv, PanelStands

(* A gesture counts as one and leaves what is shown.                       *)
LEMMA DoPaces ==
  ASSUME PageInv, Do
  PROVE  Paced /\ shown' = shown
  BY PanelConstants DEF PageInv, Do, Paced

(* An answer does not count, and is of a request that was made.            *)
LEMMA AnswerPaces ==
  ASSUME PageInv, NEW f, Answer(f)
  PROVE  Paced /\ shown' = shown /\ f \in flights /\ FlightsFit(flights \ {f}, shown)
         /\ FlightFits(f, shown)
  BY DEF PageInv, Answer, Paced, FlightsFit

(* A page that changes what is not of the catalogue or opens more of it.   *)
Similar(q, p) ==
  /\ DOMAIN q = DOMAIN p /\ q.metadata = p.metadata /\ q.tables = p.tables
  /\ q.schemas = p.schemas /\ q.late = p.late /\ q.checked = p.checked /\ q.checks = p.checks
  /\ q.expanded \subseteq Schemas /\ q.loadingTables \subseteq Schemas
  /\ q.loadingSchemas \in BOOLEAN

(* A panel that differs outside its catalogue starts like the other.       *)
LEMMA SimilarStarts ==
  ASSUME NEW p, NEW q, NEW conn, PanelStarts(p, conn), Similar(q, p)
  PROVE  PanelStarts(q, conn)
  BY DEF PanelStarts, PanelFits, OwnTo, Similar

(* The stores the page steps to.                                           *)
LEMMA TakesOnLeft ==
  ASSUME NEW s, NEW t, TakesOn(s), StoreSound(t), t.connections = s.connections
  PROVE  TakesOn(t)
  BY DEF TakesOn

(* The store as it is can be taken on.                                     *)
LEMMA TakesOnItself ==
  ASSUME StoreSound(store)
  PROVE  TakesOn(store)
  BY DEF TakesOn

(* What was selected last is remembered beside the lists.                  *)
LEMMA RememberedTakesOn ==
  ASSUME NEW s, TakesOn(s), NEW id, NEW x
  PROVE  TakesOn(SetSelectedSchemaNames(s, id, x)) /\ TakesOn(SetSelectedTable(s, id, x))
<1>1. /\ SetSelectedSchemaNames(s, id, x).connections = s.connections
      /\ SetSelectedTable(s, id, x).connections = s.connections
  BY DEF SetSelectedSchemaNames, SetSelectedTable
<1> QED
  BY <1>1, RememberedKeeps, TakesOnLeft DEF TakesOn

(* Connections that change one by one keep their identities.               *)
LEMMA MappedIds ==
  ASSUME NEW s, NEW t, NEW m, t.connections = m, Renewed(m, s.connections), TakesOn(s), StoreSound(t)
  PROVE  TakesOn(t)
<1>1. ListFits(s.connections)
  BY DEF TakesOn, StoreSound, StateFits, ConnectionsFit
<1>2. Ids(m) = Ids(s.connections)
  BY <1>1, ChangeFits
<1> QED
  BY <1>2 DEF TakesOn

(* Connections that change keep their identities.                          *)
LEMMA ToldTakesOn ==
  ASSUME NEW s, TakesOn(s), NEW id
  PROVE  /\ TakesOn(ToggleConnectionActive(s, id)) /\ TakesOn(SetConnectionTestPending(s, id))
         /\ TakesOn(SetConnectionTestSuccess(s, id)) /\ TakesOn(SetConnectionTestError(s, id))
<1> DEFINE l == s.connections
           Kept(m) == m = [i \in DOMAIN l |-> m[i]]
           a == ToggleConnectionActive(s, id)
           b == SetConnectionTestPending(s, id)
           c == SetConnectionTestSuccess(s, id)
           d == SetConnectionTestError(s, id)
<1>1. StoreSound(a) /\ StoreSound(b) /\ StoreSound(c) /\ StoreSound(d)
  BY ToggleConnectionActiveKeeps, SetConnectionTestPendingKeeps, SetConnectionTestSuccessKeeps,
     SetConnectionTestErrorKeeps DEF TakesOn
<1>2. DOMAIN s = DOMAIN EmptyStore /\ \A i \in DOMAIN l : l[i] \in Connection
  BY DEF TakesOn, StoreSound, StateFits, ConnectionsFit, Range
<1>3. Renewed(a.connections, l)
  <2>1. a.connections = [i \in DOMAIN l |-> IF l[i].id = id THEN [l[i] EXCEPT !.active = ~@] ELSE l[i]]
    BY <1>2 DEF ToggleConnectionActive, OfConnection, Mapped, EmptyStore
  <2>2. \A x \in Connection : [x EXCEPT !.active = ~@].id = x.id
    BY DEF Connection
  <2> HIDE DEF a, l
  <2> QED
    BY <1>2, <2>1, <2>2 DEF Renewed
<1>4. Renewed(b.connections, l)
  <2>1. b.connections = [i \in DOMAIN l |-> IF l[i].id = id THEN [l[i] EXCEPT !.test = "testing"] ELSE l[i]]
    BY <1>2 DEF SetConnectionTestPending, OfConnection, Mapped, EmptyStore
  <2>2. \A x \in Connection : [x EXCEPT !.test = "testing"].id = x.id
    BY DEF Connection
  <2> HIDE DEF b, l
  <2> QED
    BY <1>2, <2>1, <2>2 DEF Renewed
<1>5. Renewed(c.connections, l)
  <2>1. c.connections = [i \in DOMAIN l |->
                           IF l[i].id = id THEN [l[i] EXCEPT !.test = "success", !.active = TRUE]
                           ELSE l[i]]
    BY <1>2 DEF SetConnectionTestSuccess, OfConnection, Mapped, EmptyStore
  <2>2. \A x \in Connection : [x EXCEPT !.test = "success", !.active = TRUE].id = x.id
    BY DEF Connection
  <2> HIDE DEF c, l
  <2> QED
    BY <1>2, <2>1, <2>2 DEF Renewed
<1>6. Renewed(d.connections, l)
  <2>1. d.connections = [i \in DOMAIN l |->
                           IF l[i].id = id THEN [l[i] EXCEPT !.test = "error", !.active = FALSE]
                           ELSE l[i]]
    BY <1>2 DEF SetConnectionTestError, OfConnection, Mapped, EmptyStore
  <2>2. \A x \in Connection : [x EXCEPT !.test = "error", !.active = FALSE].id = x.id
    BY DEF Connection
  <2> HIDE DEF d, l
  <2> QED
    BY <1>2, <2>1, <2>2 DEF Renewed
<1> HIDE DEF a, b, c, d, l
<1>7. TakesOn(a) /\ TakesOn(b) /\ TakesOn(c) /\ TakesOn(d)
  BY <1>1, <1>3, <1>4, <1>5, <1>6, MappedIds DEF l
<1> QED
  BY <1>7 DEF a, b, c, d

(* The connections of the server, a selection and a deletion.              *)
LEMMA ServersTakesOn ==
  ASSUME StoreSound(store), NEW ids \in {<< >>} \cup {<<i>> : i \in ServerIds}
  PROVE  TakesOn(UpsertServerConnections(store, ids))
  BY UpsertServerConnectionsKeeps DEF TakesOn

(* Another connection is selected.                                         *)
LEMMA ChosenTakesOn ==
  ASSUME StoreSound(store), NEW c \in Range(store.connections)
  PROVE  TakesOn(SelectConnection(store, c.id))
<1>1. Has(store.connections, c.id)
  BY IdsOf
<1>2. SelectConnection(store, c.id).connections = store.connections
  BY DEF SelectConnection
<1> QED
  BY <1>1, <1>2, SelectConnectionKeeps DEF TakesOn

(* A connection is removed.                                                *)
LEMMA RemovedTakesOn ==
  ASSUME StoreSound(store), NEW id
  PROVE  TakesOn(RemoveConnection(store, id))
<1> DEFINE l == store.connections
           next == Only(l, {c \in Range(l) : c.id # id})
<1>1. StoreSound(RemoveConnection(store, id))
  BY RemoveConnectionKeeps
<1>2. RemoveConnection(store, id).connections = next
  BY RangeLeft DEF RemoveConnection, EmptyStore
<1>3. Range(next) \subseteq Range(l)
  BY RangeLeft, OnlyFits
<1> HIDE DEF next
<1>4. Ids(next) \subseteq Ids(l)
  BY <1>3, IdsOf DEF Has
<1> QED
  BY <1>1, <1>2, <1>4 DEF TakesOn

(* Operations of views, sources and layers leave the connections.          *)
LEMMA DrawnTakesOn ==
  ASSUME StoreSound(store), NEW id
  PROVE  /\ TakesOn(RemoveMapLayer(store, id)) /\ TakesOn(ToggleMapLayerVisibility(store, id))
         /\ TakesOn(RefreshMapSourcesForConnection(store, id))
<1> DEFINE a == RemoveMapLayer(store, id)
           b == ToggleMapLayerVisibility(store, id)
           c == RefreshMapSourcesForConnection(store, id)
<1>1. StoreSound(a) /\ StoreSound(b) /\ StoreSound(c)
  BY RemoveMapLayerKeeps, VisibilityKeeps, RefreshConnectionKeeps DEF LayersKept
<1>2. a.connections = store.connections
  BY DEF RemoveMapLayer
<1>3. b.connections = store.connections
  BY DEF ToggleMapLayerVisibility, OfLayer
<1>4. c.connections = store.connections
  BY DEF RefreshMapSourcesForConnection
<1> HIDE DEF a, b, c
<1>5. TakesOn(a) /\ TakesOn(b) /\ TakesOn(c)
  BY <1>1, <1>2, <1>3, <1>4, TakesOnItself, TakesOnLeft
<1> QED
  BY <1>5 DEF a, b, c

(* A layer takes a name.                                                   *)
LEMMA NamedTakesOn ==
  ASSUME StoreSound(store), NEW id, NEW kinds, NEW value
  PROVE  TakesOn(Named(store, id, kinds, value))
<1> DEFINE t == Named(store, id, kinds, value)
<1>1. StoreSound(t)
  BY NameKeeps DEF LayersKept
<1>2. t.connections = store.connections
  BY DEF Named, OfLayer
<1> HIDE DEF t
<1>3. TakesOn(t)
  BY <1>1, <1>2, TakesOnItself, TakesOnLeft
<1> QED
  BY <1>3 DEF t

(* A source takes other columns or another filter.                         *)
LEMMA FilteredTakesOn ==
  ASSUME StoreSound(store), NEW id, NEW x
  PROVE  /\ TakesOn(UpdateFlowmapSource(store, id, x))
         /\ TakesOn(UpdateFlowmapSpatialFilter(store, id, x))
         /\ TakesOn(UpdateGeoJsonSpatial(store, id, x))
<1> DEFINE a == UpdateFlowmapSource(store, id, x)
           b == UpdateFlowmapSpatialFilter(store, id, x)
           c == UpdateGeoJsonSpatial(store, id, x)
<1>1. StoreSound(a) /\ StoreSound(b) /\ StoreSound(c)
  BY FlowKeeps, FlowSpatialKeeps, SpatialKeeps
<1>2. a.connections = store.connections
  BY DEF UpdateFlowmapSource, OfSource
<1>3. b.connections = store.connections
  BY DEF UpdateFlowmapSpatialFilter, OfSource
<1>4. c.connections = store.connections
  BY DEF UpdateGeoJsonSpatial, OfSource
<1> HIDE DEF a, b, c
<1>5. TakesOn(a) /\ TakesOn(b) /\ TakesOn(c)
  BY <1>1, <1>2, <1>3, <1>4, TakesOnItself, TakesOnLeft
<1> QED
  BY <1>5 DEF a, b, c

(* The layers of previews are removed.                                     *)
LEMMA PreviewsTakesOn ==
  ASSUME StoreSound(store), NEW P, NEW gone, gone = Only(store.mapLayers, P)
  PROVE  TakesOn(RemoveMapLayers(store, gone))
<1>1. Len(gone) \in Nat
  BY RangeLeft, OnlyFits, ListBasics
<1> QED
  BY <1>1, RemoveMapLayersKeeps, TakesOnItself, TakesOnLeft

(* A view is deleted.                                                      *)
LEMMA UnviewedTakesOn ==
  ASSUME NEW s, TakesOn(s), NEW id
  PROVE  TakesOn(RemoveSavedTableView(s, id))
<1>1. RemoveSavedTableView(s, id).connections = s.connections
  BY DEF RemoveSavedTableView
<1>2. StoreSound(RemoveSavedTableView(s, id))
  BY RemoveViewKeeps DEF TakesOn
<1> QED
  BY <1>1, <1>2, TakesOnLeft

(* Layers that are added.                                                  *)
LEMMA GeometryTakesOn ==
  ASSUME StoreSound(store), NEW conn, NEW t, NEW c, NEW purpose \in {"configured", "record-preview"}
  PROVE  TakesOn(AddGeoJsonLayer(store, GeometryPayload(conn, t, c, purpose)))
<1> DEFINE p == GeometryPayload(conn, t, c, purpose)
<1>1. /\ p.view = None /\ p.type = GeometryOf[p.table][p.column]
      /\ p.purpose \in {"configured", "record-preview"}
  BY DEF GeometryPayload
<1> HIDE DEF p
<1>2. StoreSound(AddGeoJsonLayer(store, p))
  BY <1>1, AddGeoJsonLayerKeeps
<1>3. AddGeoJsonLayer(store, p).connections = store.connections
  BY DEF AddGeoJsonLayer, Layered
<1>4. TakesOn(AddGeoJsonLayer(store, p))
  BY <1>2, <1>3, TakesOnItself, TakesOnLeft
<1> QED
  BY <1>4 DEF p

(* A layer of flows or of arcs is added.                                   *)
LEMMA FlowTakesOn ==
  ASSUME StoreSound(store), NEW conn, NEW t, NEW flow, NEW row
  PROVE  /\ TakesOn(AddArcLayer(store, FlowPayload(conn, t, flow, row)))
         /\ TakesOn(AddFlowmapLayer(store, FlowPayload(conn, t, flow, row)))
<1> DEFINE p == FlowPayload(conn, t, flow, row)
<1>1. p.view = None /\ p.purpose \in {"configured", "record-preview"}
  BY DEF FlowPayload
<1> HIDE DEF p
<1>2. StoreSound(AddArcLayer(store, p)) /\ StoreSound(AddFlowmapLayer(store, p))
  BY <1>1, FlowLayerKeeps
<1>3. AddArcLayer(store, p).connections = store.connections
  BY DEF AddArcLayer, Layered
<1>4. AddFlowmapLayer(store, p).connections = store.connections
  BY DEF AddFlowmapLayer, Layered
<1>5. TakesOn(AddArcLayer(store, p)) /\ TakesOn(AddFlowmapLayer(store, p))
  BY <1>2, <1>3, <1>4, TakesOnItself, TakesOnLeft
<1> QED
  BY <1>5 DEF p

(* Steps of the page: a gesture, or an answer.                             *)
LEMMA GestureStands ==
  ASSUME StoreSound(store), PageInv, Do, NEW s, TakesOn(s), NEW p, Similar(p, panel), NEW fs,
         FlightsFit(fs, shown), NEW replaced, Render(s, p, fs, replaced)
  PROVE  PageStood
<1>1. Paced /\ shown' = shown
  BY DoPaces
<1>2. PanelStarts(p, store.selected)
  BY PageStarts, SimilarStarts
<1> QED
  BY <1>1, <1>2, RenderStands

(* An answer that puts a panel that starts as it has to.                   *)
LEMMA AnswerStands ==
  ASSUME StoreSound(store), PageInv, NEW f, Answer(f), NEW s, TakesOn(s), NEW p,
         PanelStarts(p, store.selected), NEW replaced, Render(s, p, flights \ {f}, replaced)
  PROVE  PageStood
<1>1. Paced /\ shown' = shown /\ FlightsFit(flights \ {f}, shown)
  BY AnswerPaces
<1> QED
  BY <1>1, RenderStands

(* The panel as it is, and the requests made from it.                      *)
LEMMA PanelSimilar ==
  ASSUME PageInv
  PROVE  Similar(panel, panel) /\ DOMAIN panel = PanelFields /\ FlightsFit(flights, shown)
  BY PageStarts DEF PanelStarts, PanelFits, Similar

(* One more request that fits.                                             *)
LEMMA MoreFlights ==
  ASSUME NEW fs, NEW sh, FlightsFit(fs, sh), NEW f, FlightFits(f, sh)
  PROVE  FlightsFit(fs \cup {f}, sh)
  BY DEF FlightsFit

-----------------------------------------------------------------------------
(* The steps of the catalogue.                                             *)
LEMMA ServersListedStands ==
  ASSUME StoreSound(store), PageInv, ServersListed
  PROVE  PageStood
<1> DEFINE f == Flight("servers", None)
<1>1. PICK listed \in {<< >>} \cup {<<i>> : i \in ServerIds} :
        Render(UpsertServerConnections(store, listed), panel, flights \ {f},
               Has(store.connections, store.selected) /\ store.selected \in Range(listed))
  BY DEF ServersListed
<1> DEFINE replaced == Has(store.connections, store.selected) /\ store.selected \in Range(listed)
           s == UpsertServerConnections(store, listed)
<1>2. TakesOn(s)
  BY ServersTakesOn
<1>3. Answer(f)
  BY DEF ServersListed
<1>4. Render(s, panel, flights \ {f}, replaced)
  BY <1>1
<1> HIDE DEF f, s, replaced
<1> QED
  BY <1>2, <1>3, <1>4, PageStarts, AnswerStands

(* The steps of the connections.                                           *)
LEMMA ConnectionStands ==
  ASSUME StoreSound(store), PageInv, NEW c \in Range(store.connections),
         ChooseConnection(c) \/ DeleteConnection(c) \/ ToggleActive(c)
  PROVE  PageStood
<1>1. CASE ChooseConnection(c)
  BY <1>1, ChosenTakesOn, PanelSimilar, GestureStands DEF ChooseConnection
<1>2. CASE DeleteConnection(c)
  BY <1>2, RemovedTakesOn, PanelSimilar, GestureStands DEF DeleteConnection
<1>3. CASE ToggleActive(c)
  BY <1>3, TakesOnItself, ToldTakesOn, PanelSimilar, GestureStands DEF ToggleActive
<1> QED
  BY <1>1, <1>2, <1>3

(* The catalogue is asked for, of a connection that works.                 *)
LEMMA LoadCatalogStands ==
  ASSUME StoreSound(store), PageInv, Do, NEW p, Similar(p, panel), NEW all,
         LoadCatalog(store, p, flights, all)
  PROVE  PageStood
<1>1. TakesOn(store) /\ FlightsFit(flights, shown)
  BY TakesOnItself, PanelSimilar
<1>2. CASE Works(store)
  <2> DEFINE q == [p EXCEPT !.loadingSchemas = TRUE]
             fs == flights \cup {SchemasFlight(store, all)}
  <2>1. Render(store, q, fs, FALSE)
    BY <1>2 DEF LoadCatalog
  <2>2. Similar(q, panel)
    BY PanelSimilar DEF Similar, PanelFields
  <2>3. FlightsFit(fs, shown)
    BY <1>1, <1>2, SchemasFlightFits, MoreFlights DEF PageInv
  <2> HIDE DEF q, fs
  <2> QED
    BY <1>1, <2>1, <2>2, <2>3, GestureStands
<1>3. CASE ~Works(store)
  BY <1>1, <1>3, GestureStands DEF LoadCatalog
<1> QED
  BY <1>2, <1>3

(* The catalogue is refreshed, opened or closed.                           *)
LEMMA CatalogToggled ==
  ASSUME StoreSound(store), PageInv, RefreshCatalog \/ ToggleCatalog
  PROVE  PageStood
<1>1. CASE RefreshCatalog
  BY <1>1, PanelSimilar, LoadCatalogStands DEF RefreshCatalog
<1>2. CASE ToggleCatalog
  <2> DEFINE p == [panel EXCEPT !.opened = ~@]
  <2>1. LoadCatalog(store, p, flights, FALSE) \/ Render(store, p, flights, FALSE)
    BY <1>2 DEF ToggleCatalog
  <2>2. Similar(p, panel)
    BY PanelSimilar DEF Similar, PanelFields
  <2>3. Do
    BY <1>2 DEF ToggleCatalog
  <2> HIDE DEF p
  <2> QED
    BY <2>1, <2>2, <2>3, PanelSimilar, TakesOnItself, LoadCatalogStands, GestureStands
<1> QED
  BY <1>1, <1>2

(* A request for the tables of a schema fits.                              *)
LEMMA TablesFlightFits ==
  ASSUME PageInv, NEW n, NEW open
  PROVE  FlightsFit(flights \cup {TablesFlight(n, open)}, shown)
<1>1. FlightFits(TablesFlight(n, open), shown)
  BY DEF TablesFlight, Flight, FlightFits, FlightFields
<1> QED
  BY <1>1, PanelSimilar, MoreFlights

(* A schema that is opened or closed leaves the catalogue as it was.       *)
LEMMA ExpandedSimilar ==
  ASSUME PageInv, NEW n \in Schemas
  PROVE  LET p == [panel EXCEPT !.expanded = @ \cup {n}]
         IN /\ Similar(p, panel) /\ Similar([p EXCEPT !.loadingTables = @ \cup {n}], panel)
            /\ Similar([panel EXCEPT !.expanded = @ \ {n}], panel)
<1> DEFINE p == [panel EXCEPT !.expanded = @ \cup {n}]
<1>1. Similar(p, panel) /\ Similar([panel EXCEPT !.expanded = @ \ {n}], panel)
  BY PanelSimilar DEF Similar, PanelFields
<1> HIDE DEF p
<1>2. Similar([p EXCEPT !.loadingTables = @ \cup {n}], panel)
  BY <1>1, PanelSimilar DEF Similar, PanelFields
<1> QED
  BY <1>1, <1>2 DEF p

(* A schema is selected, deselected, opened or closed.                     *)
LEMMA SchemaStands ==
  ASSUME StoreSound(store), PageInv, NEW n \in Schemas, ToggleSchema(n) \/ ToggleExpanded(n)
  PROVE  PageStood
<1> DEFINE p == [panel EXCEPT !.expanded = @ \cup {n}]
           r == [p EXCEPT !.loadingTables = @ \cup {n}]
           u == [panel EXCEPT !.expanded = @ \ {n}]
           fs == flights \cup {TablesFlight(n, None)}
           More(s) == Render(s, IF TablesWanted(n) THEN r ELSE p,
                             IF TablesWanted(n) THEN fs ELSE flights, FALSE)
<1>1. Similar(p, panel) /\ Similar(r, panel) /\ Similar(u, panel)
  BY ExpandedSimilar
<1>2. FlightsFit(flights, shown) /\ FlightsFit(fs, shown)
  BY TablesFlightFits, PanelSimilar
<1>3. Do
  BY DEF ToggleSchema, ToggleExpanded
<1>4. TakesOn(store)
  BY TakesOnItself
<1>5. CASE ToggleSchema(n)
  <2> DEFINE id == store.selected
             names == SelectedNames(store, id)
             cleared == IF SourceTable(store) # None /\ SchemaOf[SourceTable(store)] = n
                        THEN SelectTable(store, id, None) ELSE store
             s == SetSelectedSchemaNames(cleared, id, names \ {n})
             t == SetSelectedSchemaNames(store, id, names \cup {n})
  <2>1. Render(s, p, flights, FALSE) \/ More(t)
    BY <1>5 DEF ToggleSchema
  <2>2. TakesOn(cleared)
    BY <1>4, RememberedTakesOn DEF SelectTable
  <2> HIDE DEF cleared
  <2>3. TakesOn(s) /\ TakesOn(t)
    BY <1>4, <2>2, RememberedTakesOn
  <2> HIDE DEF s, t, p, r, fs
  <2> QED
    BY <1>1, <1>2, <1>3, <2>1, <2>3, GestureStands
<1>6. CASE ToggleExpanded(n)
  <2>1. Render(store, u, flights, FALSE) \/ More(store)
    BY <1>6 DEF ToggleExpanded
  <2> HIDE DEF u, p, r, fs
  <2> QED
    BY <1>1, <1>2, <1>3, <1>4, <2>1, GestureStands
<1> QED
  BY <1>5, <1>6

(* A table or a view is selected.                                          *)
LEMMA ChoosingStands ==
  ASSUME StoreSound(store), PageInv, Do, NEW s, TakesOn(s), NEW p, Similar(p, panel), NEW key,
         Choosing(s, p, flights, key)
  PROVE  PageStood
<1> DEFINE t == SelectTable(s, s.selected, key)
           q == AnalyseTable(s, p, s.selected, key)
<1>1. TakesOn(t)
  BY RememberedTakesOn DEF SelectTable
<1>2. Similar(q, panel)
  <2>1. q = p \/ \E a : q = [p EXCEPT !.analysed = a]
    BY DEF AnalyseTable
  <2>2. \A a : Similar([p EXCEPT !.analysed = a], panel)
    BY PanelSimilar DEF Similar, PanelFields
  <2> QED
    BY <2>1, <2>2
<1>3. Render(t, q, flights, FALSE)
  BY DEF Choosing
<1> HIDE DEF t, q
<1> QED
  BY <1>1, <1>2, <1>3, PanelSimilar, GestureStands

(* A table is selected or opened.                                          *)
LEMMA TableStands ==
  ASSUME StoreSound(store), PageInv, NEW t \in MapTables, ChooseTable(t) \/ OpenTable(t)
  PROVE  PageStood
<1>1. TakesOn(store)
  BY TakesOnItself
<1>2. CASE ChooseTable(t)
  BY <1>1, <1>2, PanelSimilar, ChoosingStands DEF ChooseTable
<1>3. CASE OpenTable(t)
  <2> DEFINE n == SchemaOf[t]
             s == SetSelectedSchemaNames(store, store.selected,
                                         SelectedNames(store, store.selected) \cup {n})
             p == [panel EXCEPT !.expanded = @ \cup {n}]
             r == [p EXCEPT !.loadingTables = @ \cup {n}]
             key == [kind |-> "table", value |-> t]
             fs == flights \cup {TablesFlight(n, key)}
  <2>1. n \in Schemas
    BY PanelConstants
  <2>2. Do /\ (Render(s, r, fs, FALSE) \/ Choosing(s, p, flights, key))
    BY <1>3 DEF OpenTable
  <2>3. TakesOn(s)
    BY <1>1, RememberedTakesOn
  <2> HIDE DEF n
  <2>4. Similar(p, panel) /\ Similar(r, panel) /\ FlightsFit(fs, shown)
    BY <2>1, ExpandedSimilar, TablesFlightFits
  <2> HIDE DEF s, p, r, key, fs
  <2> QED
    BY <2>2, <2>3, <2>4, GestureStands, ChoosingStands
<1> QED
  BY <1>2, <1>3

(* A view is selected or deleted.                                          *)
LEMMA ViewStands ==
  ASSUME StoreSound(store), PageInv, NEW v, ChooseView(v) \/ DeleteView(v)
  PROVE  PageStood
<1>1. TakesOn(store)
  BY TakesOnItself
<1>2. CASE ChooseView(v)
  BY <1>1, <1>2, PanelSimilar, ChoosingStands DEF ChooseView
<1>3. CASE DeleteView(v)
  <2> DEFINE key == [kind |-> "view", value |-> v.id]
             s == IF TableKey(store) = key THEN SelectTable(store, store.selected, None) ELSE store
             t == RemoveSavedTableView(s, v.id)
  <2>1. Do /\ Render(t, panel, flights, FALSE)
    BY <1>3 DEF DeleteView
  <2>2. TakesOn(s)
    BY <1>1, RememberedTakesOn DEF SelectTable
  <2> HIDE DEF s
  <2>3. TakesOn(t)
    BY <2>2, UnviewedTakesOn
  <2> HIDE DEF t
  <2> QED
    BY <2>1, <2>3, PanelSimilar, GestureStands
<1> QED
  BY <1>2, <1>3

(* The answers to requests for the catalogue, late ones included.          *)
LEMMA CatalogLoadedStands ==
  ASSUME StoreSound(store), PageInv, Paced, shown' = shown, NEW p, PanelStarts(p, store.selected),
         NEW fs, FlightsFit(fs, shown), NEW f, NEW visible \in SUBSET Schemas,
         CatalogLoaded(p, fs, f, visible)
  PROVE  PageStood
<1> DEFINE n == IF f.table = None THEN None ELSE SchemaOf[f.table]
           own == IF n \in visible THEN {n} ELSE {}
           s == SetSelectedSchemaNames(store, f.conn,
                                       (SelectedNames(store, f.conn) \cap visible) \cup own)
           q == [p EXCEPT !.expanded = (@ \cap visible) \cup own]
           a == [q EXCEPT !.loadingSchemas = FALSE]
           b == [q EXCEPT !.loadingTables = @ \cup {n}]
           t == SelectTable(s, f.conn, None)
           g == [Flight("tables", f.conn) EXCEPT !.schema = n, !.outer = TRUE]
<1>1. \/ Render(s, a, fs, FALSE)
      \/ Render(t, a, fs, FALSE)
      \/ own # {} /\ Render(s, b, fs \cup {g}, FALSE)
  BY DEF CatalogLoaded
<1>2. TakesOn(s)
  BY TakesOnItself, RememberedTakesOn
<1> HIDE DEF s
<1>3. TakesOn(t)
  BY <1>2, RememberedTakesOn DEF SelectTable
<1>4. own \subseteq Schemas /\ (own # {} => n \in Schemas)
  OBVIOUS
<1>5. FlightFits(g, shown)
  BY DEF Flight, FlightFits, FlightFields
<1>6. FlightsFit(fs \cup {g}, shown)
  BY <1>5, MoreFlights
<1> HIDE DEF t, g, own, n
<1>7. Similar(q, p)
  BY <1>4 DEF PanelStarts, PanelFits, PanelFields, Similar
<1> HIDE DEF q
<1>8. Similar(a, p)
  BY <1>7 DEF PanelStarts, PanelFits, PanelFields, Similar
<1>9. own # {} => Similar(b, p)
  BY <1>4, <1>7 DEF PanelStarts, PanelFits, PanelFields, Similar
<1> HIDE DEF a, b
<1>10. PanelStarts(a, store.selected) /\ (own # {} => PanelStarts(b, store.selected))
  BY <1>8, <1>9, SimilarStarts
<1>11. CASE Render(s, a, fs, FALSE)
  BY <1>2, <1>10, <1>11, RenderStands
<1>12. CASE Render(t, a, fs, FALSE)
  BY <1>3, <1>10, <1>12, RenderStands
<1>13. CASE own # {} /\ Render(s, b, fs \cup {g}, FALSE)
  BY <1>2, <1>6, <1>10, <1>13, RenderStands
<1> QED
  BY <1>1, <1>11, <1>12, <1>13

(* An answer for another connection makes the panel late.                  *)
LEMMA LateStarts ==
  ASSUME NEW p, PanelStarts(p, store.selected), NEW f
  PROVE  LET q == Late(p, f)
         IN /\ PanelStarts(q, store.selected) /\ (~q.late => f.conn = store.selected)
            /\ DOMAIN q = DOMAIN p
<1> DEFINE q == Late(p, f)
<1>1. /\ DOMAIN q = DOMAIN p /\ q.metadata = p.metadata /\ q.tables = p.tables
      /\ q.schemas = p.schemas /\ q.checked = p.checked /\ q.checks = p.checks
      /\ q.expanded = p.expanded /\ q.loadingTables = p.loadingTables
      /\ q.loadingSchemas = p.loadingSchemas
  BY DEF PanelStarts, PanelFits, PanelFields, Late
<1>2. q.late = (p.late \/ f.conn # store.selected) /\ q.late \in BOOLEAN
  BY DEF PanelStarts, PanelFits, PanelFields, Late
<1> HIDE DEF q
<1>3. PanelStarts(q, store.selected)
  BY <1>1, <1>2 DEF PanelStarts, PanelFits, OwnTo
<1> QED
  BY <1>1, <1>2, <1>3 DEF q

(* The schemas, and the tables of all of them.                             *)
LEMMA SchemasAnsweredStands ==
  ASSUME StoreSound(store), PageInv, NEW f, SchemasAnswered(f)
  PROVE  PageStood
<1> DEFINE visible == shown[f.conn]
           l == Late(panel, f)
           p == [l EXCEPT !.schemas = [of |-> f.conn, names |-> visible]]
           fs == flights \ {f}
           g == [f EXCEPT !.kind = "all", !.names = visible]
<1>1. /\ Answer(f) /\ f.kind = "schemas"
      /\ Render(store, p, fs \cup {g}, FALSE) \/ CatalogLoaded(p, fs, f, visible)
  BY DEF SchemasAnswered
<1>2. Paced /\ shown' = shown /\ FlightsFit(fs, shown) /\ FlightFits(f, shown)
  BY <1>1, AnswerPaces
<1>3. f.conn \in DOMAIN shown /\ visible \in SUBSET Schemas
  BY <1>1, <1>2 DEF FlightFits, PageInv, ShownFits
<1> HIDE DEF visible
<1>4. FlightFits(g, shown)
  BY <1>2, <1>3 DEF FlightFits, FlightFields
<1>5. FlightsFit(fs \cup {g}, shown)
  BY <1>2, <1>4, MoreFlights
<1>6. PanelStarts(l, store.selected) /\ (~l.late => f.conn = store.selected)
  BY PageStarts, LateStarts
<1> HIDE DEF l, g, fs
<1>7. PanelStarts(p, store.selected)
  <2>1. /\ DOMAIN p = DOMAIN l /\ p.metadata = l.metadata /\ p.tables = l.tables
        /\ p.checked = l.checked /\ p.checks = l.checks /\ p.late = l.late
        /\ p.expanded = l.expanded /\ p.loadingTables = l.loadingTables
        /\ p.loadingSchemas = l.loadingSchemas
        /\ p.schemas = [of |-> f.conn, names |-> visible]
    BY <1>6 DEF PanelStarts, PanelFits, PanelFields
  <2>2. p.schemas.of = f.conn
    BY <2>1
  <2> HIDE DEF p
  <2> QED
    BY <1>6, <2>1, <2>2 DEF PanelStarts, PanelFits, OwnTo
<1> HIDE DEF p
<1> QED
  BY <1>1, <1>2, <1>3, <1>5, <1>7, TakesOnItself, RenderStands, CatalogLoadedStands

(* Tables that are listed are those of the request's connection.           *)
LEMMA TablesPut ==
  ASSUME NEW l, NEW conn, PanelStarts(l, store.selected), ~l.late => conn = store.selected,
         NEW tables, DOMAIN tables = Schemas,
         \A n \in Schemas : tables[n] = l.tables[n] \/ tables[n] = conn
  PROVE  PanelStarts([l EXCEPT !.tables = tables], store.selected)
<1> DEFINE p == [l EXCEPT !.tables = tables]
<1>1. /\ DOMAIN p = DOMAIN l /\ p.metadata = l.metadata /\ p.tables = tables
      /\ p.checked = l.checked /\ p.checks = l.checks /\ p.late = l.late
      /\ p.expanded = l.expanded /\ p.loadingTables = l.loadingTables
      /\ p.loadingSchemas = l.loadingSchemas /\ p.schemas = l.schemas
  BY DEF PanelStarts, PanelFits, PanelFields
<1> HIDE DEF p
<1>2. PanelStarts(p, store.selected)
  BY <1>1 DEF PanelStarts, PanelFits, OwnTo
<1> QED
  BY <1>2 DEF p

(* The tables of every schema come together.                               *)
LEMMA AllTablesAnsweredStands ==
  ASSUME StoreSound(store), PageInv, NEW f, AllTablesAnswered(f)
  PROVE  PageStood
<1> DEFINE l == Late(panel, f)
           tables == [n \in Schemas |-> IF n \in f.names THEN f.conn ELSE l.tables[n]]
           p == [l EXCEPT !.tables = tables]
           fs == flights \ {f}
<1>1. Answer(f) /\ CatalogLoaded(p, fs, f, f.names)
  BY DEF AllTablesAnswered
<1>2. Paced /\ shown' = shown /\ FlightsFit(fs, shown) /\ f.names \in SUBSET Schemas
  BY <1>1, AnswerPaces DEF FlightFits
<1>3. PanelStarts(l, store.selected) /\ (~l.late => f.conn = store.selected)
  BY PageStarts, LateStarts
<1>4. DOMAIN tables = Schemas /\ \A n \in Schemas : tables[n] = l.tables[n] \/ tables[n] = f.conn
  OBVIOUS
<1> HIDE DEF l, tables
<1>5. PanelStarts(p, store.selected)
  BY <1>3, <1>4, TablesPut
<1> HIDE DEF p, fs
<1> QED
  BY <1>1, <1>2, <1>5, CatalogLoadedStands

(* What is left when the tables came or failed to.                         *)
LEMMA TablesEndedStands ==
  ASSUME StoreSound(store), PageInv, NEW f, Answer(f), NEW p, PanelStarts(p, store.selected),
         TablesEnded(p, f)
  PROVE  PageStood
<1> DEFINE q == [p EXCEPT !.loadingTables = @ \ {f.schema}, !.loadingSchemas = @ /\ ~f.outer]
           s == SelectTable(store, f.conn, f.open)
<1>1. Render(store, q, flights \ {f}, FALSE) \/ Render(s, q, flights \ {f}, FALSE)
  BY DEF TablesEnded
<1>2. TakesOn(store) /\ TakesOn(s)
  BY TakesOnItself, RememberedTakesOn DEF SelectTable
<1>3. Similar(q, p)
  BY DEF PanelStarts, PanelFits, PanelFields, Similar
<1> HIDE DEF q, s
<1>4. PanelStarts(q, store.selected)
  BY <1>3, SimilarStarts
<1> QED
  BY <1>1, <1>2, <1>4, AnswerStands

(* The tables of a schema, and a failure to load them.                     *)
LEMMA TablesStand ==
  ASSUME StoreSound(store), PageInv, NEW f, TablesAnswered(f) \/ TablesRefused(f)
  PROVE  PageStood
<1> DEFINE l == Late(panel, f)
           p == [l EXCEPT !.tables[f.schema] = f.conn]
<1>1. CASE TablesAnswered(f)
  <2>1. Answer(f) /\ TablesEnded(p, f)
    BY <1>1 DEF TablesAnswered
  <2>2. PanelStarts(l, store.selected) /\ (~l.late => f.conn = store.selected)
    BY PageStarts, LateStarts
  <2> HIDE DEF l
  <2> DEFINE tables == [l.tables EXCEPT ![f.schema] = f.conn]
  <2>3. /\ DOMAIN tables = Schemas
        /\ \A n \in Schemas : tables[n] = l.tables[n] \/ tables[n] = f.conn
    BY <2>2 DEF PanelStarts, PanelFits
  <2>4. p = [l EXCEPT !.tables = tables]
    BY <2>2 DEF PanelStarts, PanelFits, PanelFields
  <2> HIDE DEF tables
  <2>5. PanelStarts(p, store.selected)
    BY <2>2, <2>3, <2>4, TablesPut
  <2> HIDE DEF p
  <2> QED
    BY <2>1, <2>5, TablesEndedStands
<1>2. CASE TablesRefused(f)
  BY <1>2, PageStarts, TablesEndedStands DEF TablesRefused
<1> QED
  BY <1>1, <1>2

(* The catalogue was not to be had.                                        *)
LEMMA CatalogRefusedStands ==
  ASSUME StoreSound(store), PageInv, NEW f, CatalogRefused(f)
  PROVE  PageStood
<1> DEFINE p == [panel EXCEPT !.loadingSchemas = FALSE]
<1>1. Answer(f) /\ Render(store, p, flights \ {f}, FALSE)
  BY DEF CatalogRefused
<1>2. Similar(p, panel)
  BY PanelSimilar DEF Similar, PanelFields
<1>3. PanelStarts(p, store.selected)
  BY <1>2, PageStarts, SimilarStarts
<1> HIDE DEF p
<1> QED
  BY <1>1, <1>3, TakesOnItself, AnswerStands

(* Metadata is read for the selected connection alone.                     *)
LEMMA MetadataStands ==
  ASSUME StoreSound(store), PageInv, MetadataAnswered \/ MetadataRefused
  PROVE  PageStood
<1>1. Paced /\ shown' = shown
  BY DEF MetadataAnswered, MetadataRefused, Paced, PageInv
<1>2. PanelStarts(panel, store.selected) /\ panel.reading # None /\ panel.reading.conn = store.selected
  BY DEF PageInv, PanelStands, ReadingOwn, MetadataAnswered, MetadataRefused
<1>3. CASE MetadataAnswered
  <2> DEFINE p == [panel EXCEPT !.metadata[panel.reading.table] = panel.reading.conn]
             metadata == [panel.metadata EXCEPT ![panel.reading.table] = panel.reading.conn]
  <2>1. Render(store, p, flights, FALSE)
    BY <1>3 DEF MetadataAnswered
  <2>2. p = [panel EXCEPT !.metadata = metadata]
    BY PanelSimilar DEF PanelFields
  <2>3. /\ DOMAIN metadata = MapTables
        /\ \A t \in MapTables : metadata[t] \in {None, store.selected}
    BY <1>2 DEF PanelStarts, PanelFits, OwnTo
  <2> HIDE DEF metadata
  <2>4. /\ DOMAIN p = DOMAIN panel /\ p.metadata = metadata /\ p.tables = panel.tables
        /\ p.checked = panel.checked /\ p.checks = panel.checks /\ p.late = panel.late
        /\ p.expanded = panel.expanded /\ p.loadingTables = panel.loadingTables
        /\ p.loadingSchemas = panel.loadingSchemas /\ p.schemas = panel.schemas
    BY <2>2, PanelSimilar DEF PanelFields
  <2> HIDE DEF p
  <2>5. PanelStarts(p, store.selected)
    BY <1>2, <2>3, <2>4 DEF PanelStarts, PanelFits, OwnTo
  <2> QED
    BY <1>1, <2>1, <2>5, TakesOnItself, PanelSimilar, RenderStands
<1>4. CASE MetadataRefused
  <2> DEFINE p == [panel EXCEPT !.failed = ReadingOn(store, panel)]
  <2>1. Render(store, p, flights, FALSE)
    BY <1>4 DEF MetadataRefused
  <2>2. Similar(p, panel)
    BY PanelSimilar DEF Similar, PanelFields
  <2> HIDE DEF p
  <2>3. PanelStarts(p, store.selected)
    BY <1>2, <2>2, SimilarStarts
  <2> QED
    BY <1>1, <2>1, <2>3, TakesOnItself, PanelSimilar, RenderStands
<1> QED
  BY <1>3, <1>4

(* Every step of the catalogue.                                            *)
LEMMA CatalogStands ==
  ASSUME StoreSound(store), PageInv, CatalogNext
  PROVE  PageStood
<1>1. ASSUME \/ ServersListed \/ RefreshCatalog \/ ToggleCatalog \/ MetadataAnswered
             \/ MetadataRefused
      PROVE  PageStood
  BY <1>1, ServersListedStands, CatalogToggled, MetadataStands
<1>2. ASSUME NEW c \in Range(store.connections),
             \/ store.selected # c.id /\ ChooseConnection(c)
             \/ DeleteConnection(c) \/ ToggleActive(c)
      PROVE  PageStood
  BY <1>2, ConnectionStands
<1>3. ASSUME NEW n \in Schemas, ToggleSchema(n) \/ ToggleExpanded(n) PROVE PageStood
  BY <1>3, SchemaStands
<1>4. ASSUME NEW t \in MapTables, ChooseTable(t) \/ OpenTable(t) PROVE PageStood
  BY <1>4, TableStands
<1>5. ASSUME NEW v \in Range(store.views), ChooseView(v) \/ DeleteView(v) PROVE PageStood
  BY <1>5, ViewStands
<1>6. ASSUME NEW f \in flights,
             \/ SchemasAnswered(f) \/ AllTablesAnswered(f) \/ TablesAnswered(f)
             \/ TablesRefused(f) \/ CatalogRefused(f)
      PROVE  PageStood
  BY <1>6, SchemasAnsweredStands, AllTablesAnsweredStands, TablesStand, CatalogRefusedStands
<1> QED
  BY <1>1, <1>2, <1>3, <1>4, <1>5, <1>6 DEF CatalogNext

-----------------------------------------------------------------------------
(* The steps of the map.                                                   *)
(* A flight that is not for a catalogue fits whatever is shown.            *)
LEMMA MapFlightFits ==
  ASSUME PageInv, NEW kind \in {"extent", "feature", "test"}, NEW conn, NEW layer, NEW source
  PROVE  /\ FlightsFit(flights \cup {[Flight(kind, conn) EXCEPT !.layer = layer]}, shown)
         /\ FlightsFit(flights \cup {[Flight(kind, conn) EXCEPT !.layer = layer,
                                                               !.source = source]}, shown)
<1> DEFINE f == [Flight(kind, conn) EXCEPT !.layer = layer]
           g == [Flight(kind, conn) EXCEPT !.layer = layer, !.source = source]
<1>1. FlightFits(f, shown) /\ FlightFits(g, shown)
  BY DEF Flight, FlightFits, FlightFields
<1> HIDE DEF f, g
<1>2. FlightsFit(flights \cup {f}, shown) /\ FlightsFit(flights \cup {g}, shown)
  BY <1>1, PanelSimilar, MoreFlights
<1> QED
  BY <1>2 DEF f, g

(* A layer is activated, located or clicked.                               *)
LEMMA LayerStands ==
  ASSUME StoreSound(store), PageInv, NEW y, ChooseLayer(y) \/ LocateLayer(y) \/ ClickMap(y)
  PROVE  PageStood
<1>1. TakesOn(store) /\ TakesOn(ToggleMapLayerVisibility(store, y.id)) /\ FlightsFit(flights, shown)
  BY TakesOnItself, DrawnTakesOn, PanelSimilar
<1>2. CASE ChooseLayer(y)
  <2> DEFINE p == ActivateLayer(y)
  <2>1. Do /\ Render(store, p, flights, FALSE)
    BY <1>2 DEF ChooseLayer
  <2>2. Similar(p, panel)
    BY PanelSimilar DEF ActivateLayer, Similar, PanelFields
  <2> HIDE DEF p
  <2> QED
    BY <1>1, <2>1, <2>2, GestureStands
<1>3. CASE LocateLayer(y)
  <2> DEFINE p == [panel EXCEPT !.active = y.id, !.locating = y.id]
             fs == flights \cup {[Flight("extent", y.connection) EXCEPT !.layer = y.id]}
  <2>1. Do /\ (Render(store, p, fs, FALSE)
               \/ Render(ToggleMapLayerVisibility(store, y.id), p, fs, FALSE))
    BY <1>3 DEF LocateLayer
  <2>2. Similar(p, panel)
    BY PanelSimilar DEF Similar, PanelFields
  <2>3. FlightsFit(fs, shown)
    BY MapFlightFits
  <2> HIDE DEF p, fs
  <2> QED
    BY <1>1, <2>1, <2>2, <2>3, GestureStands
<1>4. CASE ClickMap(y)
  <2> DEFINE q == ActivateLayer(y)
             p == [q EXCEPT !.selection = Object(y.id, y.source)]
  <2>1. Do /\ Render(store, p, flights, FALSE)
    BY <1>4 DEF ClickMap
  <2>2. Similar(q, panel)
    BY PanelSimilar DEF ActivateLayer, Similar, PanelFields
  <2> HIDE DEF q
  <2>3. Similar(p, panel)
    BY <2>2, PanelSimilar DEF Similar, PanelFields
  <2> HIDE DEF p
  <2> QED
    BY <1>1, <2>1, <2>3, GestureStands
<1> QED
  BY <1>2, <1>3, <1>4

(* A layer is removed, shown, hidden or renamed, or its flow changes.      *)
LEMMA LayerChanged ==
  ASSUME StoreSound(store), PageInv, NEW y, ChangeLayer(y)
  PROVE  PageStood
<1>1. PICK s : /\ \/ s = RemoveMapLayer(store, y.id)
                  \/ s = ToggleMapLayerVisibility(store, y.id)
                  \/ s = Named(store, y.id, {y.kind}, "other")
                  \/ \E id, flow : s = UpdateFlowmapSource(store, id, flow)
               /\ Render(s, panel, flights, FALSE)
  BY DEF ChangeLayer, Named
<1>2. TakesOn(s)
  BY <1>1, DrawnTakesOn, NamedTakesOn, FilteredTakesOn
<1>3. Do
  BY DEF ChangeLayer
<1> QED
  BY <1>1, <1>2, <1>3, PanelSimilar, GestureStands

(* A record that is located leaves the catalogue as it was.                *)
LEMMA LocatedSimilar ==
  ASSUME PageInv, NEW layer, NEW source
  PROVE  Similar(Located(panel, layer, source), panel)
  BY PanelSimilar DEF Located, Similar, PanelFields

(* A record is shown on the map.                                           *)
LEMMA FeatureStands ==
  ASSUME StoreSound(store), PageInv, NEW y, LocateFeature(y)
  PROVE  PageStood
<1> DEFINE fs == flights \cup {[Flight("feature", store.selected) EXCEPT
                                  !.layer = y.id, !.source = y.source]}
           p == Located(panel, y.id, y.source)
<1>1. Do /\ (Render(store, panel, fs, FALSE) \/ Render(store, p, flights, FALSE))
  BY DEF LocateFeature
<1>2. FlightsFit(fs, shown) /\ FlightsFit(flights, shown)
  BY MapFlightFits, PanelSimilar
<1>3. Similar(p, panel) /\ Similar(panel, panel)
  BY LocatedSimilar, PanelSimilar
<1> HIDE DEF fs, p
<1> QED
  BY <1>1, <1>2, <1>3, TakesOnItself, GestureStands

(* A related record is located or drawn as an arc.                         *)
LEMMA RelatedStands ==
  ASSUME StoreSound(store), PageInv, NEW t, NEW c, LocateRelated(t, c) \/ DrawRelatedArc(t, c)
  PROVE  PageStood
<1>1. CASE LocateRelated(t, c)
  <2> DEFINE s == AddGeoJsonLayer(store, GeometryPayload(store.selected, t, c, "record-preview"))
  <2>1. Do /\ \E id, source :
                Render(s, panel, flights \cup {[Flight("feature", store.selected) EXCEPT
                                                  !.layer = id, !.source = source]}, FALSE)
    BY <1>1 DEF LocateRelated
  <2>2. TakesOn(s)
    BY GeometryTakesOn
  <2> HIDE DEF s
  <2> QED
    BY <2>1, <2>2, MapFlightFits, PanelSimilar, GestureStands
<1>2. CASE DrawRelatedArc(t, c)
  <2> DEFINE s == AddArcLayer(store, FlowPayload(store.selected, t, GeometryFlow(c), 1))
  <2>1. Do /\ \E id, source : Render(s, Located(panel, id, source), flights, FALSE)
    BY <1>2 DEF DrawRelatedArc
  <2>2. TakesOn(s)
    BY FlowTakesOn
  <2> HIDE DEF s
  <2> QED
    BY <2>1, <2>2, LocatedSimilar, PanelSimilar, GestureStands
<1> QED
  BY <1>1, <1>2

(* An extent or a record comes, or fails to.                               *)
LEMMA MapAnswerStands ==
  ASSUME StoreSound(store), PageInv, NEW f,
         ExtentAnswered(f) \/ ExtentRefused(f) \/ FeatureAnswered(f) \/ FeatureRefused(f)
  PROVE  PageStood
<1>1. Answer(f) /\ \E p : /\ \/ p = [panel EXCEPT !.located = f.layer, !.locating = None]
                             \/ p = [panel EXCEPT !.locating = None]
                             \/ p = Located(panel, f.layer, f.source)
                             \/ p = panel
                          /\ Render(store, p, flights \ {f}, FALSE)
  BY DEF ExtentAnswered, ExtentRefused, FeatureAnswered, FeatureRefused
<1>2. PICK p : /\ \/ p = [panel EXCEPT !.located = f.layer, !.locating = None]
                  \/ p = [panel EXCEPT !.locating = None]
                  \/ p = Located(panel, f.layer, f.source)
                  \/ p = panel
               /\ Render(store, p, flights \ {f}, FALSE)
  BY <1>1
<1> DEFINE q == [panel EXCEPT !.located = f.layer, !.locating = None]
           r == [panel EXCEPT !.locating = None]
<1>3. Similar(q, panel) /\ Similar(r, panel)
  BY PanelSimilar DEF Similar, PanelFields
<1> HIDE DEF q, r
<1>4. Similar(p, panel)
  BY <1>2, <1>3, LocatedSimilar, PanelSimilar DEF q, r
<1>5. PanelStarts(p, store.selected)
  BY <1>4, PageStarts, SimilarStarts
<1> QED
  BY <1>1, <1>2, <1>5, TakesOnItself, AnswerStands

(* A check that found no rows removes the preview.                         *)
LEMMA PreviewStands ==
  ASSUME StoreSound(store), PageInv, NEW id, NEW empty \in BOOLEAN, PreviewAnswered(id, empty)
  PROVE  PageStood
<1> DEFINE P == {y \in Range(store.mapLayers) : y.source = id /\ y.purpose = "record-preview"}
           gone == Only(store.mapLayers, P)
           s == IF empty THEN RemoveMapLayers(store, gone) ELSE store
           p == [panel EXCEPT !.checks = @ \ {id}]
<1>1. panelSteps' = panelSteps /\ shown' = shown /\ Render(s, p, flights, FALSE)
  BY DEF PreviewAnswered
<1>2. Paced
  BY <1>1 DEF Paced, PageInv
<1> HIDE DEF P
<1>3. TakesOn(RemoveMapLayers(store, gone))
  BY PreviewsTakesOn
<1>4. TakesOn(s)
  BY <1>3, TakesOnItself
<1>5. /\ DOMAIN p = DOMAIN panel /\ p.metadata = panel.metadata /\ p.tables = panel.tables
      /\ p.checked = panel.checked /\ p.checks \subseteq panel.checks /\ p.late = panel.late
      /\ p.expanded = panel.expanded /\ p.loadingTables = panel.loadingTables
      /\ p.loadingSchemas = panel.loadingSchemas /\ p.schemas = panel.schemas
  BY PanelSimilar DEF PanelFields
<1> HIDE DEF gone, s, p
<1>6. PanelStarts(p, store.selected)
  BY <1>5, PageStarts DEF PanelStarts, PanelFits, OwnTo
<1> QED
  BY <1>1, <1>2, <1>4, <1>6, PanelSimilar, RenderStands

(* A source is filtered by the selection or refreshed.                     *)
LEMMA SourceStands ==
  ASSUME StoreSound(store), PageInv, NEW x,
         FilterBySelection(x) \/ ClearSpatialFilter(x) \/ FeatureCreated(x)
  PROVE  PageStood
<1>1. Do /\ \E s : /\ \/ \E spatial : \/ s = UpdateFlowmapSpatialFilter(store, x.id, spatial)
                                      \/ s = UpdateGeoJsonSpatial(store, x.id, spatial)
                      \/ s = RefreshMapSourcesForConnection(store, x.connection)
                   /\ Render(s, panel, flights, FALSE)
  BY DEF FilterBySelection, ClearSpatialFilter, FeatureCreated
<1>2. PICK s : /\ \/ \E spatial : \/ s = UpdateFlowmapSpatialFilter(store, x.id, spatial)
                                  \/ s = UpdateGeoJsonSpatial(store, x.id, spatial)
                  \/ s = RefreshMapSourcesForConnection(store, x.connection)
               /\ Render(s, panel, flights, FALSE)
  BY <1>1
<1>3. TakesOn(s)
  BY <1>2, FilteredTakesOn, DrawnTakesOn
<1> QED
  BY <1>1, <1>2, <1>3, PanelSimilar, GestureStands

(* A click beside the layers ends the selection.                           *)
LEMMA ClickNothingStands ==
  ASSUME StoreSound(store), PageInv, ClickNothing
  PROVE  PageStood
<1> DEFINE p == [panel EXCEPT !.selection = None]
<1>1. Do /\ Render(store, p, flights, FALSE)
  BY DEF ClickNothing
<1>2. Similar(p, panel)
  BY PanelSimilar DEF Similar, PanelFields
<1> HIDE DEF p
<1> QED
  BY <1>1, <1>2, TakesOnItself, PanelSimilar, GestureStands

(* Every step of the map.                                                  *)
LEMMA MapStands ==
  ASSUME StoreSound(store), PageInv, MapNext
  PROVE  PageStood
<1>1. ASSUME NEW c \in Range(store.connections), store.selected # c.id /\ ChooseConnection(c)
      PROVE  PageStood
  BY <1>1, ConnectionStands
<1>2. ASSUME NEW y \in Range(store.mapLayers),
             ChooseLayer(y) \/ LocateLayer(y) \/ ChangeLayer(y) \/ ClickMap(y) \/ LocateFeature(y)
      PROVE  PageStood
  BY <1>2, LayerStands, LayerChanged, FeatureStands
<1>3. ASSUME NEW t \in MapTables, NEW c \in DOMAIN GeometryOf[t],
             LocateRelated(t, c) \/ DrawRelatedArc(t, c)
      PROVE  PageStood
  BY <1>3, RelatedStands
<1>4. ASSUME NEW id \in panel.checks, NEW empty \in BOOLEAN, PreviewAnswered(id, empty)
      PROVE  PageStood
  BY <1>4, PreviewStands
<1>5. ASSUME NEW f \in flights,
             ExtentAnswered(f) \/ ExtentRefused(f) \/ FeatureAnswered(f) \/ FeatureRefused(f)
      PROVE  PageStood
  BY <1>5, MapAnswerStands
<1>6. ASSUME NEW x \in Range(store.mapSources),
             FilterBySelection(x) \/ ClearSpatialFilter(x) \/ FeatureCreated(x)
      PROVE  PageStood
  BY <1>6, SourceStands
<1> QED
  BY <1>1, <1>2, <1>3, <1>4, <1>5, <1>6, ClickNothingStands DEF MapNext

(* The page that is loaded, and what a page that stands says.              *)
LEMMA PageInitStands ==
  ASSUME StoreSound(store), PanelInit
  PROVE  PageInv
<1>1. /\ PanelStands(store, Effects(store, EmptyPanel, TRUE))
  <2> DEFINE p == EmptyPanel
  <2>1. /\ DOMAIN p = PanelFields /\ p.metadata = [t \in MapTables |-> None]
        /\ p.tables = [n \in Schemas |-> None] /\ p.expanded = {} /\ p.loadingTables = {}
        /\ p.loadingSchemas = FALSE /\ p.late = FALSE /\ p.checks = {} /\ p.schemas = None
    BY DEF EmptyPanel, PanelFields
  <2> HIDE DEF p
  <2>2. PanelStarts(p, store.selected)
    BY <2>1 DEF PanelStarts, PanelFits, OwnTo
  <2>3. PanelStands(store, Effects(store, p, TRUE))
    BY <2>2, EffectsStand
  <2> QED
    BY <2>3 DEF p
<1>2. panel = Effects(store, EmptyPanel, TRUE) /\ panelSteps = 0
      /\ flights = Restored(store, EmptyPanel, {Flight("servers", None)})
      /\ shown = [c \in Ids(store.connections) \cup ServerIds |-> Schemas]
  BY DEF PanelInit
<1>3. ShownFits(store, shown)
  BY <1>2 DEF ShownFits
<1>4. FlightFits(Flight("servers", None), shown)
  BY DEF Flight, FlightFits, FlightFields
<1> DEFINE p == EmptyPanel
           fs == {Flight("servers", None)}
<1>5. FlightsFit(fs, shown)
  BY <1>4 DEF FlightsFit
<1> HIDE DEF p, fs
<1>6. FlightsFit(Restored(store, p, fs), shown)
  BY <1>3, <1>5, RestoredFits
<1>7. 0 \in 0..PanelGestures
  BY PanelConstants
<1> QED
  BY <1>1, <1>2, <1>3, <1>6, <1>7 DEF PageInv, p, fs

(* The properties of a page.                                               *)
LEMMA PageTyped ==
  ASSUME PageInv
  PROVE  PanelTypeOK
<1>1. /\ PanelFits(panel) /\ ChecksStand(store, panel) /\ FlightsFit(flights, shown)
  BY DEF PageInv, PanelStands, PanelStarts
<1>2. DOMAIN EmptyPanel = PanelFields
  BY DEF EmptyPanel, PanelFields
<1>3. DOMAIN Flight("any", None) = FlightFields
  BY DEF Flight, FlightFields
<1>4. \A x \in PreviewSources(store) : x.id \in Ids(store.mapSources)
  BY IdsOf DEF PreviewSources, Has
<1>5. panel.checks \subseteq Ids(store.mapSources)
  BY <1>1, <1>4 DEF ChecksStand
<1> QED
  BY <1>1, <1>2, <1>3, <1>5 DEF PanelTypeOK, PanelFits, FlightsFit, FlightFits, PageInv

(* What ChoicesStand says of a page.                                       *)
LEMMA PageChosen ==
  ASSUME PageInv
  PROVE  MetadataIsOwn /\ CatalogIsOwn /\ ChoiceIsThere /\ AnalysedAsIs /\ ChecksAreCurrent
  BY DEF PageInv, PanelStands, PanelStarts, OwnTo, ActiveThere, SelectionThere, DockFollows,
         ChecksStand, MetadataIsOwn, CatalogIsOwn, ChoiceIsThere, AnalysedAsIs, ChecksAreCurrent

-----------------------------------------------------------------------------
(***************************************************************************)
(* The forms (FormsInv).                                                   *)
(*                                                                         *)
(* A form and a dialog carry the number they were opened with, and so does *)
(* a request made from them. The invariant says what a request of the one  *)
(* that is open is for, which is what an answer with its number brings. No *)
(* request has the number of a form that is yet to be opened. A connection *)
(* that is tested has its request in flight, or was left so by an earlier  *)
(* page.                                                                   *)
(***************************************************************************)
FormFields ==
  {"kind", "conn", "table", "of", "column", "named", "flow", "flowNamed", "error", "late", "n"}
BusyFields == {"source", "configs", "saving", "opened", "left"}
EntryFits(e) == e # None => e.filled \in BOOLEAN /\ e.bundled \in BOOLEAN
BusyFits(b, steps) == DOMAIN b = BusyFields /\ b.opened \in Nat /\ b.opened <= steps
FormHolds(fm, opened, sel) ==
  fm # None =>
    /\ DOMAIN fm = FormFields /\ fm.late \in BOOLEAN /\ fm.n \in Nat /\ fm.n <= opened
    /\ fm.table # None /\ ~fm.late =>
         /\ fm.conn = sel => fm.of = fm.conn
         /\ fm.kind \in {"point", "polygon"} /\ fm.column # None =>
              Fits(fm.kind, fm.table, fm.column)
DialogHolds(dg, opened, sh) ==
  dg # None =>
    /\ DOMAIN dg = {"conn", "configs", "late", "n"} /\ dg.late \in BOOLEAN
    /\ dg.conn \in DOMAIN sh /\ dg.n \in Nat /\ dg.n <= opened
    /\ dg.configs # None =>
         /\ DOMAIN dg.configs = {"of", "names"} /\ dg.configs.names \subseteq Schemas
         /\ ~dg.late => dg.configs.of = dg.conn
OneOpen(e, fm, dg) == (e # None => fm = None /\ dg = None) /\ (fm # None => dg = None)

(* A request of a form or a dialog that is still open is for its           *)
(* connection, and before the server's connections are listed the form is  *)
(* of the selected one.                                                    *)
FlightHolds(f, fm, dg, opened, sel) ==
  /\ f.open = None
  /\ f.kind \in {"form", "configs"} => f.n \in Nat /\ f.n <= opened
  /\ f.kind = "form" /\ fm # None /\ f.n = fm.n =>
       f.pattern = fm.kind /\ (fm.conn = sel => f.conn = fm.conn)
  /\ f.kind = "configs" /\ dg # None /\ f.n = dg.n => f.conn = dg.conn
FlightsHold(fs, fm, dg, opened, sel) ==
  /\ \A f \in fs : FlightHolds(f, fm, dg, opened, sel)
  /\ fm # None /\ Flight("servers", None) \in fs => fm.conn = sel
TestsHold(conns, fs, left) ==
  \A c \in Range(conns) :
    c.test = "testing" => c.id \in left \/ \E f \in fs : f.kind = "test" /\ f.conn = c.id
FormsInv ==
  /\ KeysFit(store) /\ EntryFits(entry) /\ BusyFits(busy, panelSteps)
  /\ FormHolds(form, busy.opened, store.selected) /\ DialogHolds(dialog, busy.opened, shown)
  /\ OneOpen(entry, form, dialog)
  /\ FlightsHold(flights, form, dialog, busy.opened, store.selected)
  /\ TestsHold(store.connections, flights, busy.left)

(* Requests that are added for the catalogue, and tests that go on.        *)
Quiet(f) == f.kind \in {"schemas", "all", "tables"} /\ f.open = None
GrownBy(gs, fs) == \A f \in gs : f \in fs \/ Quiet(f)

(* Requests that no form made leave what is said of the forms' own.        *)
LEMMA GrownHold ==
  ASSUME NEW gs, NEW fs, GrownBy(gs, fs), NEW fm, NEW dg, NEW opened, NEW sel,
         FlightsHold(fs, fm, dg, opened, sel)
  PROVE  FlightsHold(gs, fm, dg, opened, sel)
<1>1. \A f : Quiet(f) => FlightHolds(f, fm, dg, opened, sel) /\ f # Flight("servers", None)
  BY DEF Quiet, FlightHolds, Flight
<1> QED
  BY <1>1 DEF GrownBy, FlightsHold

(* A request that is no test ends, and the tests are as they were.         *)
LEMMA TestsLeft ==
  ASSUME NEW conns, NEW fs, NEW gs, NEW left, TestsHold(conns, fs, left),
         \A f \in fs : f \in gs \/ f.kind # "test"
  PROVE  TestsHold(conns, gs, left)
  BY DEF TestsHold

(* A request of the catalogue is not of a form.                            *)
LEMMA SchemasFlightQuiet ==
  ASSUME NEW s, NEW all
  PROVE  Quiet(SchemasFlight(s, all))
  BY DEF Quiet, SchemasFlight, Flight

(* What a page that is rendered leaves of what the forms go by.            *)
LEMMA RenderedForms ==
  ASSUME NEW s0, StoreSound(s0), KeysFit(s0), NEW p, NEW fs, NEW replaced,
         Render(s0, p, fs, replaced)
  PROVE  /\ KeysFit(store') /\ store'.selected = s0.selected
         /\ store'.connections = s0.connections
         /\ GrownBy(flights', fs) /\ fs \subseteq flights'
<1> DEFINE s == DropVanishedView(s0)
           t == SetSelectedTable(s0, s0.selected, None)
<1>1. store' = s /\ flights' = Restored(s, p, fs)
  BY DEF Render
<1>2. s.selected = s0.selected /\ s.connections = s0.connections
  BY VanishedKeeps
<1>3. KeysFit(t)
  <2>1. /\ t.views = s0.views
        /\ t.tables = [i \in DOMAIN s0.tables \cup {s0.selected} |->
                         IF i = s0.selected THEN None ELSE s0.tables[i]]
    BY RangeLeft DEF SetSelectedTable, EmptyStore
  <2> HIDE DEF t
  <2> QED
    BY <2>1 DEF KeysFit
<1>4. s = s0 \/ s = t
  BY DEF DropVanishedView
<1>5. KeysFit(s)
  BY <1>3, <1>4
<1> HIDE DEF s, t
<1>6. \A f \in Restored(s, p, fs) : f \in fs \/ Quiet(f)
  BY SchemasFlightQuiet DEF Restored
<1>7. fs \subseteq Restored(s, p, fs)
  BY DEF Restored
<1> QED
  BY <1>1, <1>2, <1>5, <1>6, <1>7 DEF GrownBy

(* A step that leaves the forms, the connections and the selection.        *)
Steady(s) == KeysFit(s) /\ StoreSound(s) /\ s.selected = store.selected
             /\ s.connections = store.connections

(* A step of the page that leaves the forms keeps their invariant.         *)
LEMMA SteadyKeeps ==
  ASSUME FormsInv, UNCHANGED formVars, panelSteps' \in {panelSteps, panelSteps + 1},
         panelSteps \in Nat, shown' = shown,
         NEW s, Steady(s), NEW p, NEW fs, GrownBy(fs, flights),
         \A f \in flights : f \in fs \/ f.kind # "test",
         NEW replaced, Render(s, p, fs, replaced)
  PROVE  FormsInv'
<1>1. /\ KeysFit(store') /\ store'.selected = store.selected
      /\ store'.connections = store.connections
      /\ GrownBy(flights', fs) /\ fs \subseteq flights'
  BY RenderedForms DEF Steady
<1>2. entry' = entry /\ form' = form /\ dialog' = dialog /\ busy' = busy
  BY DEF formVars
<1>3. FlightsHold(fs, form, dialog, busy.opened, store.selected)
  BY GrownHold DEF FormsInv
<1>4. FlightsHold(flights', form, dialog, busy.opened, store.selected)
  BY <1>1, <1>3, GrownHold
<1>5. TestsHold(store.connections, fs, busy.left)
  BY TestsLeft DEF FormsInv
<1>6. TestsHold(store.connections, flights', busy.left)
  BY <1>1, <1>5, TestsLeft
<1>7. BusyFits(busy, panelSteps')
  BY DEF FormsInv, BusyFits
<1> QED
  BY <1>1, <1>2, <1>4, <1>6, <1>7 DEF FormsInv

(* The store as it is says the same of the tests.                          *)
LEMMA SteadyItself ==
  ASSUME FormsInv, StoreSound(store)
  PROVE  Steady(store)
  BY DEF Steady, FormsInv

(* So does one in which the selection is remembered.                       *)
LEMMA SteadyNames ==
  ASSUME NEW s, Steady(s), NEW id, NEW names
  PROVE  Steady(SetSelectedSchemaNames(s, id, names)) /\ Steady(SetSelectedTable(s, id, None))
<1> DEFINE a == SetSelectedSchemaNames(s, id, names)
           b == SetSelectedTable(s, id, None)
<1>1. StoreSound(a) /\ StoreSound(b)
  BY RememberedKeeps DEF Steady
<1>2. /\ a.views = s.views /\ a.tables = s.tables
      /\ a.selected = s.selected /\ a.connections = s.connections
  BY DEF SetSelectedSchemaNames
<1>3. /\ b.views = s.views /\ b.selected = s.selected /\ b.connections = s.connections
      /\ b.tables = [i \in DOMAIN s.tables \cup {id} |-> IF i = id THEN None ELSE s.tables[i]]
  BY RangeLeft DEF Steady, SetSelectedTable, EmptyStore
<1> HIDE DEF a, b
<1>4. KeysFit(a) /\ KeysFit(b)
  BY <1>2, <1>3 DEF Steady, KeysFit
<1>5. Steady(a) /\ Steady(b)
  BY <1>1, <1>2, <1>3, <1>4 DEF Steady
<1> QED
  BY <1>5 DEF a, b

-----------------------------------------------------------------------------
(* Answers that come to the catalogue while forms are open.                *)
Kept(fs) == GrownBy(fs, flights) /\ \A f \in flights : f \in fs \/ f.kind # "test"
Held == UNCHANGED <<formVars, panelSteps, shown>>

(* A step that keeps the forms and their requests keeps the invariant.     *)
LEMMA HeldKeeps ==
  ASSUME FormsInv, PageInv, Held, NEW s, Steady(s), NEW p, NEW fs, Kept(fs), NEW replaced,
         Render(s, p, fs, replaced)
  PROVE  FormsInv'
<1>1. /\ UNCHANGED formVars /\ panelSteps' \in {panelSteps, panelSteps + 1}
      /\ panelSteps \in Nat /\ shown' = shown
  BY PanelConstants DEF Held, PageInv
<1>2. GrownBy(fs, flights) /\ \A f \in flights : f \in fs \/ f.kind # "test"
  BY DEF Kept
<1> QED
  BY <1>1, <1>2, SteadyKeeps

(* An answer to the catalogue ends no test.                                *)
LEMMA KeptWithout ==
  ASSUME NEW f, f.kind # "test"
  PROVE  Kept(flights \ {f})
  BY DEF Kept, GrownBy

(* A request of the catalogue is none of the forms'.                       *)
LEMMA KeptWith ==
  ASSUME NEW fs, Kept(fs), NEW g, Quiet(g)
  PROVE  Kept(fs \cup {g})
  BY DEF Kept, GrownBy

(* The requests as they are.                                               *)
LEMMA KeptItself == Kept(flights)
  BY DEF Kept, GrownBy

(* A catalogue that comes while a form is open.                            *)
LEMMA CatalogLoadedForms ==
  ASSUME StoreSound(store), FormsInv, PageInv, Held, NEW p, NEW fs, Kept(fs), NEW f, NEW visible,
         CatalogLoaded(p, fs, f, visible)
  PROVE  FormsInv'
<1> DEFINE n == IF f.table = None THEN None ELSE SchemaOf[f.table]
           own == IF n \in visible THEN {n} ELSE {}
           s == SetSelectedSchemaNames(store, f.conn,
                                       (SelectedNames(store, f.conn) \cap visible) \cup own)
           t == SetSelectedTable(s, f.conn, None)
           g == [Flight("tables", f.conn) EXCEPT !.schema = n, !.outer = TRUE]
<1>1. \E q : \/ Render(s, q, fs, FALSE)
             \/ Render(t, q, fs, FALSE)
             \/ Render(s, q, fs \cup {g}, FALSE)
  BY DEF CatalogLoaded, SelectTable
<1>2. Steady(s)
  BY SteadyItself, SteadyNames
<1> HIDE DEF s
<1>3. Steady(t)
  BY <1>2, SteadyNames
<1>4. Quiet(g)
  BY DEF Quiet, Flight
<1> HIDE DEF t, g
<1>5. Kept(fs \cup {g})
  BY <1>4, KeptWith
<1> QED
  BY <1>1, <1>2, <1>3, <1>5, HeldKeeps

(* An answer to the catalogue leaves the forms alone.                      *)
LEMMA CatalogAnswersForms ==
  ASSUME StoreSound(store), FormsInv, PageInv, UNCHANGED formVars, NEW f \in flights,
         SchemasAnswered(f) \/ AllTablesAnswered(f) \/ TablesAnswered(f) \/ CatalogRefused(f)
  PROVE  FormsInv'
<1>1. Held
  BY DEF SchemasAnswered, AllTablesAnswered, TablesAnswered, CatalogRefused, Answer, Held
<1>2. f.kind # "test"
  BY DEF SchemasAnswered, AllTablesAnswered, TablesAnswered, CatalogRefused
<1>3. Kept(flights \ {f})
  BY <1>2, KeptWithout
<1>4. f.open = None /\ DOMAIN f = FlightFields
  BY DEF FormsInv, FlightsHold, FlightHolds, PageInv, FlightsFit, FlightFits
<1>5. CASE SchemasAnswered(f)
  <2> DEFINE g == [f EXCEPT !.kind = "all", !.names = shown[f.conn]]
             fs == flights \ {f}
  <2>1. Quiet(g)
    BY <1>4 DEF Quiet, FlightFields
  <2>2. \E p : Render(store, p, fs \cup {g}, FALSE) \/ CatalogLoaded(p, fs, f, shown[f.conn])
    BY <1>5 DEF SchemasAnswered
  <2> HIDE DEF g
  <2>3. Kept(fs \cup {g})
    BY <1>3, <2>1, KeptWith
  <2> QED
    BY <1>1, <1>3, <2>2, <2>3, SteadyItself, HeldKeeps, CatalogLoadedForms
<1>6. CASE AllTablesAnswered(f)
  <2>1. \E p : CatalogLoaded(p, flights \ {f}, f, f.names)
    BY <1>6 DEF AllTablesAnswered
  <2> QED
    BY <1>1, <1>3, <2>1, CatalogLoadedForms
<1>7. CASE TablesAnswered(f)
  <2>1. \E p : Render(store, p, flights \ {f}, FALSE)
    BY <1>4, <1>7 DEF TablesAnswered, TablesEnded
  <2> QED
    BY <1>1, <1>3, <2>1, SteadyItself, HeldKeeps
<1>8. CASE CatalogRefused(f)
  <2>1. \E p : Render(store, p, flights \ {f}, FALSE)
    BY <1>8 DEF CatalogRefused
  <2> QED
    BY <1>1, <1>3, <2>1, SteadyItself, HeldKeeps
<1> QED
  BY <1>5, <1>6, <1>7, <1>8

(* Metadata that comes while a form is open.                               *)
LEMMA MetadataForms ==
  ASSUME StoreSound(store), FormsInv, PageInv, UNCHANGED formVars, MetadataAnswered
  PROVE  FormsInv'
<1>1. Held /\ \E p : Render(store, p, flights, FALSE)
  BY DEF MetadataAnswered, Held
<1> QED
  BY <1>1, KeptItself, SteadyItself, HeldKeeps

(* Another connection is selected: by the list of the server, or by hand   *)
(* when nothing is open.                                                   *)
LEMMA ListedHolds ==
  ASSUME NEW fm, NEW dg, NEW opened, NEW sel, NEW now, NEW fs, NEW gs, gs \subseteq fs,
         fm # None => fm.conn = sel /\ Flight("servers", None) \notin gs,
         FormHolds(fm, opened, sel), FlightsHold(fs, fm, dg, opened, sel)
  PROVE  FormHolds(fm, opened, now) /\ FlightsHold(gs, fm, dg, opened, now)
  BY DEF FormHolds, FlightsHold, FlightHolds

(* The list of the server keeps what tests are running.                    *)
LEMMA UpsertedForms ==
  ASSUME StoreSound(store), KeysFit(store), NEW ids \in {<< >>} \cup {<<i>> : i \in ServerIds},
         NEW fs, NEW left, TestsHold(store.connections, fs, left)
  PROVE  LET s == UpsertServerConnections(store, ids)
         IN KeysFit(s) /\ TestsHold(s.connections, fs, left)
<1> DEFINE l == store.connections
           t == UpsertServerConnections(store, ids)
           Managed(i) == IF Has(l, i) THEN [Get(l, i) EXCEPT !.server = TRUE, !.secret = FALSE]
                        ELSE [id |-> i, server |-> TRUE, active |-> TRUE, secret |-> FALSE,
                              bundled |-> FALSE, test |-> "idle"]
           front == [i \in DOMAIN ids |-> Managed(ids[i])]
           own == Only(l, {c \in Range(l) : ~(c.server \/ c.id \in Range(ids))})
<1>1. ConnectionsFit(store) /\ ListFits(l)
  BY DEF StoreSound, StateFits, ConnectionsFit
<1>2. t.connections = front \o own /\ t.views = store.views
  BY DEF StoreSound, StateFits, EmptyStore, UpsertServerConnections
<1>3. t.tables = [i \in DOMAIN store.tables \cup Range(ids) |->
                    IF i \in DOMAIN store.tables THEN store.tables[i] ELSE None]
  BY DEF StoreSound, StateFits, EmptyStore, UpsertServerConnections
<1>4. KeysFit(t)
  <2> HIDE DEF t
  <2> QED
    BY <1>2, <1>3 DEF KeysFit
<1>5. ListFits(own) /\ Range(own) \subseteq Range(l)
  BY <1>1, OnlyFits
<1>6. ListFits(t.connections)
  BY UpsertServerConnectionsKeeps, RangeLeft
<1>7. ASSUME NEW i \in DOMAIN ids
      PROVE  Managed(ids[i]).test = "idle" \/ \E c \in Range(l) :
               c.id = Managed(ids[i]).id /\ c.test = Managed(ids[i]).test
  <2>1. CASE Has(l, ids[i])
    <3> DEFINE c == Get(l, ids[i])
               d == [c EXCEPT !.server = TRUE, !.secret = FALSE]
    <3>1. c \in Range(l) /\ c \in Connection
      BY <1>1, <2>1, GetOf DEF ConnectionsFit
    <3>2. Managed(ids[i]) = d
      BY <2>1
    <3> HIDE DEF c, Managed
    <3>3. d.id = c.id /\ d.test = c.test
      BY <3>1 DEF Connection
    <3> QED
      BY <3>1, <3>2, <3>3
  <2>2. CASE ~Has(l, ids[i])
    BY <2>2
  <2> QED
    BY <2>1, <2>2
<1> HIDE DEF t, own, l, Managed
<1>8. ListFits(front) /\ \A x \in Range(front) : \E i \in DOMAIN ids : x = Managed(ids[i])
  <2>1. CASE ids = << >>
    <3>1. front = << >>
      BY <2>1
    <3> HIDE DEF front
    <3> QED
      BY <3>1, EmptyFits
  <2>2. ASSUME NEW i \in ServerIds, ids = <<i>>
        PROVE  ListFits(front) /\ \A x \in Range(front) : \E k \in DOMAIN ids : x = Managed(ids[k])
    <3>1. front = <<Managed(i)>> /\ 1 \in DOMAIN ids /\ ids[1] = i
      BY <2>2
    <3> HIDE DEF front
    <3>2. ListFits(front) /\ Range(front) = {Managed(i)}
      BY <3>1, SingleFits
    <3> QED
      BY <3>1, <3>2
  <2> QED
    BY <2>1, <2>2
<1> HIDE DEF front
<1>9. ASSUME NEW x \in Range(t.connections)
      PROVE  x \in Range(front) \/ x \in Range(own)
  <2> DEFINE m == front \o own
  <2>1. x \in Range(m) /\ Len(front) \in Nat /\ Len(own) \in Nat
    BY <1>2, <1>5, <1>8, <1>9, ListBasics
  <2>2. PICK i \in DOMAIN m : x = m[i]
    BY <2>1 DEF Range
  <2>3. /\ i \in 1..(Len(front) + Len(own))
        /\ m[i] = IF i <= Len(front) THEN front[i] ELSE own[i - Len(front)]
    BY <1>5, <1>8, <2>2 DEF ListFits
  <2>4. CASE i <= Len(front)
    BY <1>8, <2>1, <2>2, <2>3, <2>4, ListBasics
  <2>5. CASE ~(i <= Len(front))
    <3>1. i - Len(front) \in 1..Len(own)
      BY <2>1, <2>3, <2>5
    <3> QED
      BY <1>5, <2>2, <2>3, <2>5, <3>1, ListBasics
  <2> QED
    BY <2>4, <2>5
<1>10. TestsHold(t.connections, fs, left)
  <2>1. ASSUME NEW x \in Range(t.connections), x.test = "testing"
        PROVE  \E c \in Range(l) : c.id = x.id /\ c.test = x.test
    BY <1>5, <1>7, <1>8, <1>9, <2>1
  <2> QED
    BY <2>1 DEF TestsHold, l
<1> QED
  BY <1>4, <1>10 DEF t

(* The list of the server comes while a form is open.                      *)
LEMMA ServersListedForms ==
  ASSUME StoreSound(store), FormsInv, PageInv, UNCHANGED formVars, ServersListed
  PROVE  FormsInv'
<1> DEFINE f == Flight("servers", None)
           fs == flights \ {f}
<1>1. PICK listed \in {<< >>} \cup {<<i>> : i \in ServerIds} :
        Render(UpsertServerConnections(store, listed), panel, fs,
               Has(store.connections, store.selected) /\ store.selected \in Range(listed))
  BY DEF ServersListed
<1> DEFINE s == UpsertServerConnections(store, listed)
<1>2. f \in flights /\ panelSteps' = panelSteps /\ shown' = shown
  BY DEF ServersListed, Answer
<1>3. f.kind # "test"
  BY DEF Flight
<1>4. KeysFit(s) /\ TestsHold(s.connections, flights, busy.left)
  BY UpsertedForms DEF FormsInv
<1>5. StoreSound(s)
  BY UpsertServerConnectionsKeeps
<1>6. TestsHold(s.connections, fs, busy.left)
  BY <1>3, <1>4, TestsLeft
<1> HIDE DEF s
<1>7. /\ KeysFit(store') /\ store'.selected = s.selected /\ store'.connections = s.connections
      /\ GrownBy(flights', fs) /\ fs \subseteq flights'
  BY <1>1, <1>4, <1>5, RenderedForms DEF s
<1>8. form # None => form.conn = store.selected /\ f \notin fs
  BY <1>2 DEF FormsInv, FlightsHold
<1>9. /\ FormHolds(form, busy.opened, s.selected)
      /\ FlightsHold(fs, form, dialog, busy.opened, s.selected)
  BY <1>8, ListedHolds DEF FormsInv
<1>10. FlightsHold(flights', form, dialog, busy.opened, s.selected)
  BY <1>7, <1>9, GrownHold
<1>11. TestsHold(s.connections, flights', busy.left)
  BY <1>6, <1>7, TestsLeft
<1>12. entry' = entry /\ form' = form /\ dialog' = dialog /\ busy' = busy
  BY DEF formVars
<1> QED
  BY <1>2, <1>7, <1>9, <1>10, <1>11, <1>12 DEF FormsInv

(* Another connection is selected, with no dialog open.                    *)
LEMMA ChosenForms ==
  ASSUME StoreSound(store), FormsInv, PageInv, UNCHANGED formVars, NoModal,
         NEW c \in Range(store.connections), ChooseConnection(c)
  PROVE  FormsInv'
<1> DEFINE s == SelectConnection(store, c.id)
<1>1. Render(s, panel, flights, FALSE) /\ panelSteps' = panelSteps + 1 /\ shown' = shown
  BY DEF ChooseConnection, Do
<1>2. s.views = store.views /\ s.tables = store.tables /\ s.connections = store.connections
  BY DEF SelectConnection
<1>3. StoreSound(s)
  BY ChosenTakesOn DEF TakesOn
<1> HIDE DEF s
<1>4. KeysFit(s)
  BY <1>2 DEF KeysFit, FormsInv
<1>5. /\ KeysFit(store') /\ store'.selected = s.selected /\ store'.connections = store.connections
      /\ GrownBy(flights', flights) /\ flights \subseteq flights'
  BY <1>1, <1>2, <1>3, <1>4, RenderedForms
<1>6. /\ form' = None /\ form = None /\ dialog' = None /\ dialog = None /\ entry' = None
      /\ busy' = busy
  BY DEF NoModal, formVars
<1>7. FlightsHold(flights, None, None, busy.opened, s.selected)
  BY <1>6 DEF FormsInv, FlightsHold, FlightHolds
<1>8. FlightsHold(flights', None, None, busy.opened, s.selected)
  BY <1>5, <1>7, GrownHold
<1>9. TestsHold(store.connections, flights', busy.left)
  BY <1>5, TestsLeft DEF FormsInv
<1>10. BusyFits(busy, panelSteps')
  BY <1>1, PanelConstants DEF FormsInv, BusyFits, PageInv
<1> QED
  BY <1>5, <1>6, <1>8, <1>9, <1>10 DEF FormsInv, FormHolds, DialogHolds, EntryFits, OneOpen

-----------------------------------------------------------------------------
(* A new connection, and the test of one.                                  *)
FormsStood == PageStood /\ FormsInv'

(* A gesture that touches no more than the forms.                          *)
LEMMA StillStands ==
  ASSUME StoreSound(store), PageInv, Do, store' = store, panel' = panel,
         FlightsFit(flights', shown)
  PROVE  PageStood
<1>1. Paced /\ shown' = shown
  BY DoPaces
<1> QED
  BY <1>1 DEF PageStood, PageInv, Paced

(* An answer that touches no more than the forms.                          *)
LEMMA QuietStands ==
  ASSUME StoreSound(store), PageInv, NEW f, Answer(f), store' = store, panel' = panel,
         flights' = flights \ {f}
  PROVE  PageStood
<1>1. Paced /\ shown' = shown /\ FlightsFit(flights', shown)
  BY AnswerPaces
<1> QED
  BY <1>1 DEF PageStood, PageInv, Paced

(* A form that is opened takes a number within the gestures made.          *)
LEMMA FormsPaced ==
  ASSUME FormsInv, PageInv, Do
  PROVE  /\ busy.opened \in Nat /\ busy.opened + 1 \in Nat /\ DOMAIN busy = BusyFields
         /\ busy.opened <= panelSteps' /\ busy.opened + 1 <= panelSteps' /\ panelSteps \in Nat
         /\ panelSteps' \in Nat /\ shown' = shown
  BY PanelConstants DEF FormsInv, BusyFits, PageInv, Do

(* The form of a connection is opened, filled and closed.                  *)
LEMMA EntryStands ==
  ASSUME StoreSound(store), PageInv, FormsInv,
         \/ OpenEntry \/ CloseEntry
         \/ \E filled, bundled \in BOOLEAN : FillEntry(filled, bundled)
  PROVE  FormsStood
<1>1. /\ Do /\ store' = store /\ panel' = panel /\ flights' = flights
      /\ form' = form /\ dialog' = dialog /\ busy' = busy
  BY DEF OpenEntry, CloseEntry, FillEntry, OnPage, Still
<1>2. EntryFits(entry') /\ (entry' # None => form = None /\ dialog = None)
  <2>1. CASE OpenEntry
    <3>1. entry' = [filled |-> FALSE, bundled |-> FALSE] /\ form = None /\ dialog = None
      BY <2>1 DEF OpenEntry, OnPage, NoModal
    <3> QED
      BY <3>1 DEF EntryFits
  <2>2. CASE CloseEntry
    BY <2>2 DEF CloseEntry, EntryFits
  <2>3. ASSUME NEW filled \in BOOLEAN, NEW bundled \in BOOLEAN, FillEntry(filled, bundled)
        PROVE  EntryFits(entry') /\ (entry' # None => form = None /\ dialog = None)
    <3> DEFINE b == bundled /\ filled
    <3>1. b \in BOOLEAN
      OBVIOUS
    <3>2. entry' = [filled |-> filled, bundled |-> b] /\ entry # None
      BY <2>3 DEF FillEntry
    <3> HIDE DEF b
    <3>3. EntryFits(entry')
      BY <2>3, <3>1, <3>2 DEF EntryFits
    <3>4. form = None /\ dialog = None
      BY <3>2 DEF FormsInv, OneOpen
    <3> QED
      BY <3>3, <3>4
  <2> QED
    BY <2>1, <2>2, <2>3
<1>3. PageStood
  BY <1>1, PanelSimilar, StillStands
<1>4. FormsInv'
  BY <1>1, <1>2, FormsPaced DEF FormsInv, BusyFits, OneOpen
<1> QED
  BY <1>3, <1>4 DEF FormsStood

(* A connection is added, and selected.                                    *)
LEMMA SubmitStands ==
  ASSUME StoreSound(store), PageInv, FormsInv, SubmitEntry
  PROVE  FormsStood
<1> DEFINE s == AddConnection(store, entry.bundled)
           sh == [c \in DOMAIN shown \cup {s.selected} |->
                    IF c = s.selected THEN Schemas ELSE shown[c]]
           c0 == [id |-> store.made + 1, server |-> FALSE, active |-> TRUE, secret |-> TRUE,
                  bundled |-> entry.bundled, test |-> "idle"]
<1>1. /\ entry # None /\ entry' = None /\ shown' = sh /\ Render(s, panel, flights, FALSE)
      /\ form' = form /\ dialog' = dialog /\ busy' = busy
      /\ panelSteps < PanelGestures /\ panelSteps' = panelSteps + 1
  BY DEF SubmitEntry
<1>2. form = None /\ dialog = None /\ entry.bundled \in BOOLEAN
  BY <1>1 DEF FormsInv, OneOpen, EntryFits
<1>3. /\ StoreSound(s) /\ s.selected = store.made + 1 /\ c0.id = s.selected /\ c0.test = "idle"
      /\ Range(s.connections) = {c0} \cup Range(store.connections)
  BY <1>2, AddConnectionKeeps
<1>4. s.views = store.views
  BY DEF AddConnection
<1>5. s.tables = [i \in DOMAIN store.tables \cup {store.made + 1} |->
                    IF i = store.made + 1 THEN None ELSE store.tables[i]]
  BY RangeLeft DEF AddConnection, EmptyStore
<1> HIDE DEF s, c0
<1>6. KeysFit(s)
  BY <1>4, <1>5 DEF KeysFit, FormsInv
<1>7. /\ PanelStarts(panel, store.selected) /\ FlightsFit(flights, shown)
      /\ ShownFits(store, shown) /\ panelSteps \in 0..PanelGestures
  BY PageStarts DEF PageInv
<1>8. DOMAIN shown \subseteq DOMAIN sh /\ \A c \in DOMAIN sh : sh[c] \subseteq Schemas
  BY <1>7 DEF ShownFits
<1>9. s.selected \in DOMAIN sh
  OBVIOUS
<1> HIDE DEF sh
<1>10. FlightsFit(flights, sh)
  BY <1>7, <1>8 DEF FlightsFit, FlightFits
<1>11. ShownFits(s, sh)
  <2>1. \A x \in Range(s.connections) : x.id \in Ids(store.connections) \cup {s.selected}
    BY <1>3, IdsOf DEF Has
  <2>2. \A id \in Ids(s.connections) : id \in Ids(store.connections) \cup {s.selected}
    BY <2>1, IdsOf DEF Has
  <2> QED
    BY <1>7, <1>8, <1>9, <2>2 DEF ShownFits
<1>12. /\ StoreSound(store') /\ PanelStands(store', panel')
       /\ FlightsFit(flights', sh) /\ ShownFits(store', sh)
  BY <1>1, <1>3, <1>7, <1>10, <1>11, RenderKeeps
<1>13. panelSteps' \in 0..PanelGestures /\ panelSteps <= panelSteps' /\ panelSteps \in Nat
       /\ panelSteps' \in Nat
  BY <1>1, <1>7, PanelConstants
<1>14. PageStood
  BY <1>1, <1>12, <1>13 DEF PageStood, PageInv
<1>15. /\ KeysFit(store') /\ store'.selected = s.selected /\ store'.connections = s.connections
       /\ GrownBy(flights', flights) /\ flights \subseteq flights'
  BY <1>1, <1>3, <1>6, RenderedForms
<1>16. FlightsHold(flights, None, None, busy.opened, s.selected)
  BY <1>2 DEF FormsInv, FlightsHold, FlightHolds
<1>17. FlightsHold(flights', None, None, busy.opened, s.selected)
  BY <1>15, <1>16, GrownHold
<1>18. TestsHold(s.connections, flights, busy.left)
  BY <1>3 DEF TestsHold, FormsInv
<1>19. TestsHold(s.connections, flights', busy.left)
  BY <1>15, <1>18, TestsLeft
<1>20. BusyFits(busy, panelSteps')
  BY <1>13 DEF FormsInv, BusyFits
<1>21. FormsInv'
  BY <1>1, <1>2, <1>15, <1>17, <1>19, <1>20
     DEF FormsInv, FormHolds, DialogHolds, EntryFits, OneOpen
<1> QED
  BY <1>14, <1>21 DEF FormsStood

(* What a test tells goes to its connection alone.                         *)
LEMMA ToldForms ==
  ASSUME NEW s, StoreSound(s), KeysFit(s), NEW id,
         NEW told \in {"testing", "success", "error"}, NEW t,
         t = IF told = "testing" THEN SetConnectionTestPending(s, id)
             ELSE IF told = "success" THEN SetConnectionTestSuccess(s, id)
             ELSE SetConnectionTestError(s, id)
  PROVE  /\ KeysFit(t) /\ t.selected = s.selected
         /\ \A d \in Range(t.connections) : \E c \in Range(s.connections) :
              d.id = c.id /\ d.test = IF c.id = id THEN told ELSE c.test
<1> DEFINE l == s.connections
<1>1. /\ t.selected = s.selected /\ t.views = s.views /\ t.tables = s.tables
  BY DEF SetConnectionTestPending, SetConnectionTestSuccess, SetConnectionTestError, OfConnection
<1>2. KeysFit(t)
  BY <1>1 DEF KeysFit
<1>3. /\ DOMAIN t.connections = DOMAIN l
      /\ \A i \in DOMAIN l :
           t.connections[i] =
             IF l[i].id = id
             THEN IF told = "testing" THEN [l[i] EXCEPT !.test = "testing"]
                  ELSE IF told = "success" THEN [l[i] EXCEPT !.test = "success", !.active = TRUE]
                  ELSE [l[i] EXCEPT !.test = "error", !.active = FALSE]
             ELSE l[i]
  BY RangeLeft DEF SetConnectionTestPending, SetConnectionTestSuccess, SetConnectionTestError,
                   OfConnection, Mapped, EmptyStore
<1>4. \A c \in Connection :
        /\ [c EXCEPT !.test = "testing"].id = c.id
        /\ [c EXCEPT !.test = "testing"].test = "testing"
        /\ [c EXCEPT !.test = "success", !.active = TRUE].id = c.id
        /\ [c EXCEPT !.test = "success", !.active = TRUE].test = "success"
        /\ [c EXCEPT !.test = "error", !.active = FALSE].id = c.id
        /\ [c EXCEPT !.test = "error", !.active = FALSE].test = "error"
  BY DEF Connection
<1>5. \A i \in DOMAIN l : l[i] \in Connection /\ l[i] \in Range(l)
  BY DEF StoreSound, StateFits, ConnectionsFit, Range
<1> HIDE DEF l
<1>6. ASSUME NEW i \in DOMAIN l
      PROVE  /\ t.connections[i].id = l[i].id
             /\ t.connections[i].test = IF l[i].id = id THEN told ELSE l[i].test
  <2> DEFINE c == l[i]
  <2>1. c \in Connection
    BY <1>5
  <2>2. t.connections[i] =
          IF c.id = id
          THEN IF told = "testing" THEN [c EXCEPT !.test = "testing"]
               ELSE IF told = "success" THEN [c EXCEPT !.test = "success", !.active = TRUE]
               ELSE [c EXCEPT !.test = "error", !.active = FALSE]
          ELSE c
    BY <1>3
  <2> HIDE DEF c
  <2>3. t.connections[i].id = c.id /\ t.connections[i].test = IF c.id = id THEN told ELSE c.test
    <3>1. CASE c.id # id
      BY <2>2, <3>1
    <3>2. CASE c.id = id /\ told = "testing"
      BY <1>4, <2>1, <2>2, <3>2
    <3>3. CASE c.id = id /\ told = "success"
      <4> DEFINE b == [c EXCEPT !.test = "success", !.active = TRUE]
      <4>1. b.id = c.id /\ b.test = "success"
        BY <1>4, <2>1
      <4>2. t.connections[i] = b
        BY <2>2, <3>3
      <4> HIDE DEF b
      <4> QED
        BY <3>3, <4>1, <4>2
    <3>4. CASE c.id = id /\ told = "error"
      <4> DEFINE b == [c EXCEPT !.test = "error", !.active = FALSE]
      <4>1. b.id = c.id /\ b.test = "error"
        BY <1>4, <2>1
      <4>2. t.connections[i] = b
        BY <2>2, <3>4
      <4> HIDE DEF b
      <4> QED
        BY <3>4, <4>1, <4>2
    <3> QED
      BY <3>1, <3>2, <3>3, <3>4
  <2> QED
    BY <2>3 DEF c
<1>7. \A d \in Range(t.connections) : \E i \in DOMAIN l : d = t.connections[i]
  BY <1>3 DEF Range
<1> QED
  BY <1>1, <1>2, <1>5, <1>6, <1>7 DEF l

(* A connection is tested.                                                 *)
LEMMA TestStands ==
  ASSUME StoreSound(store), PageInv, FormsInv, NEW c \in Range(store.connections), Test(c)
  PROVE  FormsStood
<1> DEFINE s == SetConnectionTestPending(store, c.id)
           f == [Flight("test", c.id) EXCEPT !.n = 1]
           g == IF f \in flights THEN [f EXCEPT !.n = 2] ELSE f
           fs == flights \cup {g}
<1>1. /\ Do /\ Render(s, panel, fs, FALSE) /\ busy' = [busy EXCEPT !.left = @ \ {c.id}]
      /\ entry' = entry /\ form' = form /\ dialog' = dialog
  BY DEF Test, OnPage
<1>2. g.kind = "test" /\ g.conn = c.id /\ g.open = None /\ DOMAIN g = FlightFields /\ g.names = {}
  BY DEF Flight, FlightFields
<1> HIDE DEF g
<1>3. FlightFits(g, shown)
  BY <1>2 DEF FlightFits
<1>4. FlightsFit(fs, shown)
  BY <1>3, PanelSimilar, MoreFlights
<1>5. TakesOn(s)
  BY TakesOnItself, ToldTakesOn
<1>6. KeysFit(store)
  BY DEF FormsInv
<1>7. /\ KeysFit(s) /\ s.selected = store.selected
      /\ \A d \in Range(s.connections) : \E x \in Range(store.connections) :
           d.id = x.id /\ d.test = IF x.id = c.id THEN "testing" ELSE x.test
  BY <1>6, ToldForms
<1> HIDE DEF s
<1>8. PageStood
  BY <1>1, <1>4, <1>5, PanelSimilar, GestureStands
<1>9. /\ KeysFit(store') /\ store'.selected = store.selected /\ store'.connections = s.connections
      /\ GrownBy(flights', fs) /\ fs \subseteq flights'
  BY <1>1, <1>5, <1>7, RenderedForms DEF TakesOn
<1>10. /\ busy'.opened = busy.opened /\ busy'.left = busy.left \ {c.id} /\ DOMAIN busy' = BusyFields
       /\ BusyFits(busy', panelSteps')
  BY <1>1, FormsPaced DEF BusyFits, BusyFields
<1>11. FlightsHold(fs, form, dialog, busy.opened, store.selected)
  <2>1. FlightHolds(g, form, dialog, busy.opened, store.selected)
    BY <1>2 DEF FlightHolds
  <2>2. g # Flight("servers", None)
    BY <1>2 DEF Flight
  <2> QED
    BY <2>1, <2>2 DEF FlightsHold, FormsInv
<1>12. FlightsHold(flights', form, dialog, busy.opened, store.selected)
  BY <1>9, <1>11, GrownHold
<1>13. TestsHold(s.connections, fs, busy'.left)
  <2>1. ASSUME NEW d \in Range(s.connections), d.test = "testing"
        PROVE  d.id \in busy'.left \/ \E h \in fs : h.kind = "test" /\ h.conn = d.id
    <3>1. PICK x \in Range(store.connections) :
            d.id = x.id /\ d.test = IF x.id = c.id THEN "testing" ELSE x.test
      BY <1>7
    <3>2. CASE x.id = c.id
      BY <1>2, <3>1, <3>2
    <3>3. CASE x.id # c.id
      <4>1. x.id \in busy.left \/ \E h \in flights : h.kind = "test" /\ h.conn = x.id
        BY <2>1, <3>1, <3>3 DEF FormsInv, TestsHold
      <4> QED
        BY <1>10, <3>1, <3>3, <4>1
    <3> QED
      BY <3>2, <3>3
  <2> QED
    BY <2>1 DEF TestsHold
<1>14. TestsHold(s.connections, flights', busy'.left)
  BY <1>9, <1>13, TestsLeft
<1>15. shown' = shown
  BY <1>1, FormsPaced
<1>16. FormsInv'
  BY <1>1, <1>9, <1>10, <1>12, <1>14, <1>15 DEF FormsInv
<1> QED
  BY <1>8, <1>16 DEF FormsStood

(* The answer of a test, of whatever form is open.                         *)
LEMMA TestAnsweredStands ==
  ASSUME StoreSound(store), PageInv, FormsInv, NEW f, TestAnswered(f)
  PROVE  FormsStood
<1> DEFINE fs == flights \ {f}
<1>0. PICK told \in {"success", "error"} : \E s :
        /\ s = IF told = "success" THEN SetConnectionTestSuccess(store, f.conn)
               ELSE SetConnectionTestError(store, f.conn)
        /\ Render(s, panel, fs, FALSE)
  BY DEF TestAnswered
<1>1. PICK s :
        /\ s = IF told = "success" THEN SetConnectionTestSuccess(store, f.conn)
               ELSE SetConnectionTestError(store, f.conn)
        /\ Render(s, panel, fs, FALSE)
  BY <1>0
<1>2. /\ Answer(f) /\ f.kind = "test" /\ UNCHANGED formVars
      /\ panelSteps' = panelSteps /\ shown' = shown
  BY DEF TestAnswered, Answer
<1>3. TakesOn(s)
  BY <1>1, TakesOnItself, ToldTakesOn
<1>4. KeysFit(store)
  BY DEF FormsInv
<1>5. /\ KeysFit(s) /\ s.selected = store.selected
      /\ \A d \in Range(s.connections) : \E x \in Range(store.connections) :
           d.id = x.id /\ d.test = IF x.id = f.conn THEN told ELSE x.test
  BY <1>1, <1>4, ToldForms
<1>6. PageStood
  BY <1>1, <1>2, <1>3, PageStarts, AnswerStands
<1>7. /\ KeysFit(store') /\ store'.selected = store.selected /\ store'.connections = s.connections
      /\ GrownBy(flights', fs) /\ fs \subseteq flights'
  BY <1>1, <1>3, <1>5, RenderedForms DEF TakesOn
<1>8. FlightsHold(fs, form, dialog, busy.opened, store.selected)
  BY DEF FlightsHold, FormsInv
<1>9. FlightsHold(flights', form, dialog, busy.opened, store.selected)
  BY <1>7, <1>8, GrownHold
<1>10. TestsHold(s.connections, fs, busy.left)
  <2>1. ASSUME NEW d \in Range(s.connections), d.test = "testing"
        PROVE  d.id \in busy.left \/ \E h \in fs : h.kind = "test" /\ h.conn = d.id
    <3>1. PICK x \in Range(store.connections) :
            d.id = x.id /\ d.test = IF x.id = f.conn THEN told ELSE x.test
      BY <1>5
    <3>2. x.id # f.conn /\ x.test = "testing"
      BY <1>1, <2>1, <3>1
    <3>3. x.id \in busy.left \/ \E h \in flights : h.kind = "test" /\ h.conn = x.id
      BY <3>2 DEF FormsInv, TestsHold
    <3> QED
      BY <3>1, <3>2, <3>3
  <2> QED
    BY <2>1 DEF TestsHold
<1>11. TestsHold(s.connections, flights', busy.left)
  BY <1>7, <1>10, TestsLeft
<1>12. entry' = entry /\ form' = form /\ dialog' = dialog /\ busy' = busy
  BY <1>2 DEF formVars
<1>13. FormsInv'
  BY <1>2, <1>7, <1>9, <1>11, <1>12 DEF FormsInv
<1> QED
  BY <1>6, <1>13 DEF FormsStood

-----------------------------------------------------------------------------
(* The schemas a connection shows.                                         *)

LEMMA OpenDialogStands ==
  ASSUME StoreSound(store), PageInv, FormsInv, NEW c \in Range(store.connections), OpenDialog(c)
  PROVE  FormsStood
<1> DEFINE n == busy.opened + 1
           f == [Flight("configs", c.id) EXCEPT !.n = n]
<1>1. /\ Do /\ store' = store /\ panel' = panel /\ flights' = flights \cup {f}
      /\ entry' = entry /\ form' = form /\ form = None /\ entry = None
      /\ dialog' = [conn |-> c.id, configs |-> None, late |-> FALSE, n |-> n]
      /\ busy' = [busy EXCEPT !.configs = TRUE, !.opened = n]
  BY DEF OpenDialog, OnPage, NoModal, Opened
<1>2. n \in Nat /\ n <= panelSteps' /\ DOMAIN busy = BusyFields /\ shown' = shown
      /\ busy.opened \in Nat
  BY <1>1, FormsPaced
<1>3. c.id \in DOMAIN shown
  <2>1. c.id \in Ids(store.connections)
    BY IdsOf DEF Has
  <2> QED
    BY <2>1 DEF PageInv, ShownFits
<1>4. n > busy.opened
  BY <1>2
<1>5. /\ f.kind = "configs" /\ f.conn = c.id /\ f.open = None /\ f.n = n /\ f.names = {}
      /\ DOMAIN f = FlightFields
  BY DEF Flight, FlightFields
<1> HIDE DEF f, n
<1>6. FlightFits(f, shown)
  BY <1>3, <1>5 DEF FlightFits
<1>7. FlightsFit(flights', shown)
  BY <1>1, <1>6, PanelSimilar, MoreFlights
<1>8. PageStood
  BY <1>1, <1>7, StillStands
<1>9. DialogHolds(dialog', n, shown)
  BY <1>1, <1>2, <1>3 DEF DialogHolds
<1>10. busy'.opened = n /\ busy'.left = busy.left /\ BusyFits(busy', panelSteps')
  BY <1>1, <1>2 DEF BusyFits, BusyFields
<1>11. \A h \in flights : FlightHolds(h, form, dialog', n, store.selected)
  <2>1. ASSUME NEW h \in flights PROVE FlightHolds(h, None, dialog', n, store.selected)
    <3>1. FlightHolds(h, form, dialog, busy.opened, store.selected)
      BY DEF FormsInv, FlightsHold
    <3>2. h.kind \in {"form", "configs"} => h.n \in Nat /\ h.n <= n /\ h.n # n
      BY <1>2, <1>4, <3>1 DEF FlightHolds
    <3> QED
      BY <1>1, <3>1, <3>2 DEF FlightHolds
  <2> QED
    BY <1>1, <2>1
<1>12. FlightHolds(f, form, dialog', n, store.selected)
  BY <1>1, <1>2, <1>5 DEF FlightHolds
<1>13. FlightsHold(flights', form, dialog', n, store.selected)
  BY <1>1, <1>11, <1>12 DEF FlightsHold
<1>14. TestsHold(store.connections, flights', busy.left)
  BY <1>1, TestsLeft DEF FormsInv
<1>15. FormsInv'
  BY <1>1, <1>2, <1>9, <1>10, <1>13, <1>14 DEF FormsInv, FormHolds, OneOpen
<1> QED
  BY <1>8, <1>15 DEF FormsStood

(* Fewer requests of the forms, and the same numbers.                      *)
LEMMA FewerHold ==
  ASSUME FormsInv, NEW f \in flights, f.kind # "test"
  PROVE  /\ FlightsHold(flights \ {f}, form, dialog, busy.opened, store.selected)
         /\ TestsHold(store.connections, flights \ {f}, busy.left)
<1>1. FlightsHold(flights \ {f}, form, dialog, busy.opened, store.selected)
  BY DEF FormsInv, FlightsHold
<1>2. TestsHold(store.connections, flights \ {f}, busy.left)
  BY TestsLeft DEF FormsInv
<1> QED
  BY <1>1, <1>2

(* Schemas come to the dialog they were asked for, or make it late.        *)
LEMMA ConfigsStand ==
  ASSUME StoreSound(store), PageInv, FormsInv, NEW f, ConfigsAnswered(f) \/ ConfigsRefused(f)
  PROVE  FormsStood
<1> DEFINE d == [dialog EXCEPT !.configs = [of |-> f.conn, names |-> shown[f.conn]],
                               !.late = @ \/ f.n # dialog.n]
<1>1. /\ Answer(f) /\ f \in flights /\ f.kind = "configs" /\ flights' = flights \ {f}
      /\ store' = store /\ panel' = panel /\ entry' = entry /\ form' = form
      /\ busy' = [busy EXCEPT !.configs = FALSE] /\ panelSteps' = panelSteps /\ shown' = shown
  BY DEF ConfigsAnswered, ConfigsRefused, Answer
<1>7. dialog' = dialog \/ (dialog # None /\ dialog' = d)
  <2>1. CASE ConfigsAnswered(f)
    BY <2>1 DEF ConfigsAnswered
  <2>2. CASE ConfigsRefused(f)
    BY <2>2 DEF ConfigsRefused
  <2> QED
    BY <2>1, <2>2
<1>2. PageStood
  BY <1>1, QuietStands
<1>3. /\ FlightsHold(flights', form, dialog, busy.opened, store.selected)
      /\ TestsHold(store.connections, flights', busy.left)
  BY <1>1, FewerHold
<1>4. busy'.opened = busy.opened /\ busy'.left = busy.left /\ BusyFits(busy', panelSteps')
  BY <1>1 DEF FormsInv, BusyFits, BusyFields
<1>5. dialog # None =>
        DialogHolds(d, busy.opened, shown) /\ d.n = dialog.n /\ d.conn = dialog.conn
  <2> SUFFICES ASSUME dialog # None
               PROVE  DialogHolds(d, busy.opened, shown) /\ d.n = dialog.n /\ d.conn = dialog.conn
    OBVIOUS
  <2>1. /\ DOMAIN dialog = {"conn", "configs", "late", "n"} /\ dialog.late \in BOOLEAN
        /\ dialog.conn \in DOMAIN shown /\ dialog.n \in Nat /\ dialog.n <= busy.opened
    BY DEF FormsInv, DialogHolds
  <2> DEFINE late == dialog.late \/ f.n # dialog.n
             configs == [of |-> f.conn, names |-> shown[f.conn]]
  <2>2. late \in BOOLEAN /\ (~late => f.n = dialog.n)
    BY <2>1
  <2>3. ~late => f.conn = dialog.conn
    BY <1>1, <2>2 DEF FormsInv, FlightsHold, FlightHolds
  <2>4. shown[f.conn] \subseteq Schemas
    <3>1. f.conn \in DOMAIN shown
      BY <1>1 DEF PageInv, FlightsFit, FlightFits
    <3> QED
      BY <3>1 DEF PageInv, ShownFits
  <2>5. /\ DOMAIN configs = {"of", "names"} /\ configs.names \subseteq Schemas
        /\ configs.of = f.conn
    BY <2>4
  <2>6. d = [dialog EXCEPT !.configs = configs, !.late = late]
    BY <2>1
  <2> HIDE DEF configs, late
  <2>7. /\ DOMAIN d = {"conn", "configs", "late", "n"} /\ d.late = late /\ d.configs = configs
        /\ d.conn = dialog.conn /\ d.n = dialog.n
    BY <2>1, <2>6
  <2> HIDE DEF d
  <2>8. DialogHolds(d, busy.opened, shown)
    BY <2>1, <2>2, <2>3, <2>5, <2>7 DEF DialogHolds
  <2> QED
    BY <2>7, <2>8
<1> HIDE DEF d
<1>6. FormsInv'
  <2>1. CASE dialog' = dialog
    BY <1>1, <1>3, <1>4, <2>1 DEF FormsInv
  <2>2. CASE dialog # None /\ dialog' = d
    <3>1. FlightsHold(flights', form, d, busy.opened, store.selected)
      BY <1>3, <1>5, <2>2 DEF FlightsHold, FlightHolds
    <3>2. OneOpen(entry, form, d)
      BY <2>2 DEF FormsInv, OneOpen
    <3> QED
      BY <1>1, <1>3, <1>4, <1>5, <2>2, <3>1, <3>2 DEF FormsInv
  <2> QED
    BY <1>7, <2>1, <2>2
<1> QED
  BY <1>2, <1>6 DEF FormsStood

(* A gesture in the dialog.                                                *)
LEMMA DialogChanged ==
  ASSUME StoreSound(store), PageInv, FormsInv, Do, store' = store, panel' = panel,
         flights' = flights, UNCHANGED <<entry, form, busy>>, dialog # None,
         DialogHolds(dialog', busy.opened, shown),
         dialog' # None => dialog'.n = dialog.n /\ dialog'.conn = dialog.conn
  PROVE  FormsStood
<1>1. PageStood
  BY PanelSimilar, StillStands
<1>2. BusyFits(busy, panelSteps') /\ shown' = shown
  BY FormsPaced DEF FormsInv, BusyFits
<1>3. FlightsHold(flights, form, dialog', busy.opened, store.selected)
  BY DEF FormsInv, FlightsHold, FlightHolds
<1>4. OneOpen(entry, form, dialog')
  BY DEF FormsInv, OneOpen
<1>5. FormsInv'
  BY <1>2, <1>3, <1>4 DEF FormsInv
<1> QED
  BY <1>1, <1>5 DEF FormsStood

(* A dialog is closed: what comes for it is late.                          *)
LEMMA CloseDialogStands ==
  ASSUME StoreSound(store), PageInv, FormsInv, CloseDialog
  PROVE  FormsStood
<1>1. /\ Do /\ store' = store /\ panel' = panel /\ flights' = flights
      /\ UNCHANGED <<entry, form, busy>> /\ dialog # None /\ dialog' = None
  BY DEF CloseDialog, Still, FormKept
<1>2. DialogHolds(dialog', busy.opened, shown)
  BY <1>1 DEF DialogHolds
<1> QED
  BY <1>1, <1>2, DialogChanged

(* A schema is ticked.                                                     *)
LEMMA ToggleShownStands ==
  ASSUME StoreSound(store), PageInv, FormsInv, NEW n \in Schemas, ToggleShown(n)
  PROVE  FormsStood
<1> DEFINE c == dialog.configs
           names == IF n \in c.names THEN c.names \ {n} ELSE c.names \cup {n}
           configs == [c EXCEPT !.names = names]
           d == [dialog EXCEPT !.configs = configs]
<1>1. /\ Do /\ store' = store /\ panel' = panel /\ flights' = flights
      /\ UNCHANGED <<entry, form, busy>> /\ dialog # None /\ c # None
      /\ dialog' = [dialog EXCEPT !.configs.names = IF n \in @ THEN @ \ {n} ELSE @ \cup {n}]
  BY DEF ToggleShown, Still, FormKept
<1>2. /\ DOMAIN dialog = {"conn", "configs", "late", "n"} /\ dialog.late \in BOOLEAN
      /\ dialog.conn \in DOMAIN shown /\ dialog.n \in Nat /\ dialog.n <= busy.opened
      /\ DOMAIN c = {"of", "names"} /\ c.names \subseteq Schemas
      /\ ~dialog.late => c.of = dialog.conn
  BY <1>1 DEF FormsInv, DialogHolds
<1>3. dialog' = d
  BY <1>1
<1>4. names \subseteq Schemas
  BY <1>2
<1> HIDE DEF names
<1>5. DOMAIN configs = {"of", "names"} /\ configs.names = names /\ configs.of = c.of
  BY <1>2
<1> HIDE DEF configs, c
<1>6. /\ DOMAIN d = {"conn", "configs", "late", "n"} /\ d.late = dialog.late
      /\ d.configs = configs /\ d.conn = dialog.conn /\ d.n = dialog.n
  BY <1>2
<1> HIDE DEF d
<1>7. DialogHolds(d, busy.opened, shown)
  BY <1>2, <1>4, <1>5, <1>6 DEF DialogHolds
<1> QED
  BY <1>1, <1>3, <1>6, <1>7, DialogChanged

(* The schemas are saved.                                                  *)
LEMMA SaveDialogStands ==
  ASSUME StoreSound(store), PageInv, FormsInv, SaveDialog
  PROVE  FormsStood
<1> DEFINE t == SourceTable(store)
           outer == dialog.conn = store.selected /\ Works(store)
           f == [Flight("save", dialog.conn) EXCEPT
                   !.names = dialog.configs.names, !.table = t, !.outer = outer]
<1>1. /\ Do /\ dialog # None /\ dialog.configs # None
      /\ busy' = [busy EXCEPT !.saving = TRUE] /\ flights' = flights \cup {f}
      /\ store' = store /\ panel' = panel /\ entry' = entry /\ form' = form /\ dialog' = dialog
  BY DEF SaveDialog
<1>2. dialog.conn \in DOMAIN shown /\ dialog.configs.names \subseteq Schemas
  BY <1>1 DEF FormsInv, DialogHolds
<1> HIDE DEF t, outer
<1>3. /\ f.kind = "save" /\ f.conn = dialog.conn /\ f.open = None
      /\ f.names = dialog.configs.names /\ DOMAIN f = FlightFields
  BY DEF Flight, FlightFields
<1> HIDE DEF f
<1>4. FlightFits(f, shown)
  BY <1>2, <1>3 DEF FlightFits
<1>5. FlightsFit(flights', shown)
  BY <1>1, <1>4, PanelSimilar, MoreFlights
<1>6. PageStood
  BY <1>1, <1>5, StillStands
<1>7. /\ busy'.opened = busy.opened /\ busy'.left = busy.left /\ BusyFits(busy', panelSteps')
      /\ shown' = shown
  BY <1>1, FormsPaced DEF BusyFits, BusyFields
<1>8. FlightHolds(f, form, dialog, busy.opened, store.selected) /\ f # Flight("servers", None)
  BY <1>3 DEF FlightHolds, Flight
<1>9. FlightsHold(flights', form, dialog, busy.opened, store.selected)
  BY <1>1, <1>8 DEF FormsInv, FlightsHold
<1>10. TestsHold(store.connections, flights', busy.left)
  BY <1>1, TestsLeft DEF FormsInv
<1>11. FormsInv'
  BY <1>1, <1>7, <1>9, <1>10 DEF FormsInv
<1> QED
  BY <1>6, <1>11 DEF FormsStood

(* The schemas were not saved.                                             *)
LEMMA SaveRefusedStands ==
  ASSUME StoreSound(store), PageInv, FormsInv, NEW f, SaveRefused(f)
  PROVE  FormsStood
<1>1. /\ Answer(f) /\ f \in flights /\ f.kind = "save" /\ flights' = flights \ {f}
      /\ store' = store /\ panel' = panel /\ entry' = entry /\ form' = form /\ dialog' = dialog
      /\ busy' = [busy EXCEPT !.saving = FALSE] /\ panelSteps' = panelSteps /\ shown' = shown
  BY DEF SaveRefused, Answer
<1>2. PageStood
  BY <1>1, QuietStands
<1>3. /\ FlightsHold(flights', form, dialog, busy.opened, store.selected)
      /\ TestsHold(store.connections, flights', busy.left)
  BY <1>1, FewerHold
<1>4. busy'.opened = busy.opened /\ busy'.left = busy.left /\ BusyFits(busy', panelSteps')
  BY <1>1 DEF FormsInv, BusyFits, BusyFields
<1>5. FormsInv'
  BY <1>1, <1>3, <1>4 DEF FormsInv
<1> QED
  BY <1>2, <1>5 DEF FormsStood

(* What is saved is shown, and the catalogue of the selected connection is *)
(* loaded anew.                                                            *)
LEMMA SaveAnsweredStands ==
  ASSUME StoreSound(store), PageInv, FormsInv, NEW f, SaveAnswered(f)
  PROVE  FormsStood
<1> DEFINE sh == [shown EXCEPT ![f.conn] = f.names]
           outer == f.outer
           p == [panel EXCEPT !.loadingSchemas = @ \/ outer]
           g == [Flight("schemas", f.conn) EXCEPT !.table = f.table]
           fs == (flights \ {f}) \cup (IF outer THEN {g} ELSE {})
<1>1. /\ f \in flights /\ f.kind = "save" /\ panelSteps' = panelSteps /\ shown' = sh
      /\ dialog' = None /\ busy' = [busy EXCEPT !.saving = FALSE]
      /\ Render(store, p, fs, FALSE) /\ entry' = entry /\ form' = form
  BY DEF SaveAnswered
<1>2. /\ f.conn \in DOMAIN shown /\ f.names \subseteq Schemas /\ FlightsFit(flights, shown)
      /\ ShownFits(store, shown) /\ panelSteps \in 0..PanelGestures
      /\ PanelStarts(panel, store.selected)
  BY <1>1, PageStarts DEF PageInv, FlightsFit, FlightFits
<1>3. DOMAIN sh = DOMAIN shown /\ \A c \in DOMAIN sh : sh[c] \subseteq Schemas
  BY <1>2 DEF ShownFits
<1> HIDE DEF sh
<1>4. ShownFits(store, sh)
  BY <1>2, <1>3 DEF ShownFits
<1>5. /\ g.kind = "schemas" /\ g.conn = f.conn /\ g.open = None /\ g.names = {}
      /\ DOMAIN g = FlightFields
  BY DEF Flight, FlightFields
<1> HIDE DEF g
<1>6. FlightFits(g, sh) /\ Quiet(g)
  BY <1>2, <1>3, <1>5 DEF FlightFits, Quiet
<1>7. FlightsFit(fs, sh)
  BY <1>2, <1>3, <1>6 DEF FlightsFit, FlightFits
<1>8. GrownBy(fs, flights \ {f}) /\ flights \ {f} \subseteq fs
  BY <1>6 DEF GrownBy
<1> HIDE DEF fs
<1>9. Similar(p, panel)
  <2>1. (panel.loadingSchemas \/ outer) \in BOOLEAN
    OBVIOUS
  <2> DEFINE b == panel.loadingSchemas \/ outer
  <2>2. p = [panel EXCEPT !.loadingSchemas = b] /\ b \in BOOLEAN
    BY <2>1
  <2> HIDE DEF b, p
  <2> QED
    BY <2>2, PanelSimilar DEF Similar, PanelFields
<1> HIDE DEF p
<1>10. PanelStarts(p, store.selected)
  BY <1>2, <1>9, SimilarStarts
<1>11. /\ StoreSound(store') /\ PanelStands(store', panel')
       /\ FlightsFit(flights', sh) /\ ShownFits(store', sh)
  BY <1>1, <1>4, <1>7, <1>10, RenderKeeps
<1>12. PageStood
  BY <1>1, <1>2, <1>11 DEF PageStood, PageInv
<1>13. KeysFit(store)
  BY DEF FormsInv
<1>14. /\ KeysFit(store') /\ store'.selected = store.selected
       /\ store'.connections = store.connections
       /\ GrownBy(flights', fs) /\ fs \subseteq flights'
  BY <1>1, <1>13, RenderedForms
<1>15. /\ FlightsHold(flights \ {f}, form, dialog, busy.opened, store.selected)
       /\ TestsHold(store.connections, flights \ {f}, busy.left)
  BY <1>1, FewerHold
<1>16. FlightsHold(flights \ {f}, form, None, busy.opened, store.selected)
  BY <1>15 DEF FlightsHold, FlightHolds
<1>17. FlightsHold(fs, form, None, busy.opened, store.selected)
  BY <1>8, <1>16, GrownHold
<1>18. FlightsHold(flights', form, None, busy.opened, store.selected)
  BY <1>14, <1>17, GrownHold
<1>19. TestsHold(store.connections, fs, busy.left)
  BY <1>8, <1>15, TestsLeft
<1>20. TestsHold(store.connections, flights', busy.left)
  BY <1>14, <1>19, TestsLeft
<1>21. busy'.opened = busy.opened /\ busy'.left = busy.left /\ BusyFits(busy', panelSteps')
  BY <1>1 DEF FormsInv, BusyFits, BusyFields
<1>22. DialogHolds(None, busy.opened, sh) /\ OneOpen(entry, form, None)
  BY DEF FormsInv, DialogHolds, OneOpen
<1>23. FormsInv'
  BY <1>1, <1>14, <1>18, <1>20, <1>21, <1>22 DEF FormsInv
<1> QED
  BY <1>12, <1>23 DEF FormsStood

-----------------------------------------------------------------------------
(* A new layer. What a table gives the form fits its kind.                 *)
LEMMA SourceTaken ==
  ASSUME NEW fm, DOMAIN fm = FormFields, NEW t, NEW of, NEW kind
  PROVE  LET r == ApplyLayerSource(fm, t, of, kind)
         IN /\ DOMAIN r = FormFields /\ r.kind = fm.kind /\ r.conn = fm.conn /\ r.n = fm.n
            /\ r.late = fm.late /\ r.table = t /\ r.of = of
            /\ t # None /\ r.column # None => Fits(kind, t, r.column)
<1> DEFINE r == ApplyLayerSource(fm, t, of, kind)
           set == FittingColumns(kind, t)
           column == IF t = None THEN None ELSE Some(set)
           flow == FlowDefaults(t)
           error == fm.error /\ t = None /\ fm.table = None
<1>1. r = [fm EXCEPT !.table = t, !.of = of, !.named = TRUE, !.flow = flow, !.flowNamed = TRUE,
                     !.error = error, !.column = column]
  BY DEF ApplyLayerSource, FormFields
<1>2. t # None /\ column # None => Fits(kind, t, column)
  BY DEF Some, FittingColumns
<1> HIDE DEF r, column, flow, error
<1>3. DOMAIN r = FormFields /\ r.kind = fm.kind /\ r.conn = fm.conn /\ r.n = fm.n
  BY <1>1 DEF FormFields
<1>4. r.late = fm.late /\ r.table = t /\ r.of = of /\ r.column = column
  BY <1>1 DEF FormFields
<1> QED
  BY <1>2, <1>3, <1>4 DEF r

(* The table that is selected is a table.                                  *)
LEMMA SourceTableIs ==
  ASSUME StoreSound(store), KeysFit(store)
  PROVE  SourceTable(store) \in MapTables \cup {None}
<1> DEFINE key == TableKey(store)
           found == Only(store.views,
                         {v \in Range(store.views) : v.connection = store.selected /\ v.id = key.value})
<1>1. CASE key = None
  BY <1>1 DEF SourceTable
<1>2. CASE key # None /\ key.kind = "table"
  <2>1. store.selected \in DOMAIN store.tables /\ key = store.tables[store.selected]
    BY <1>2 DEF TableKey
  <2>2. key.value \in MapTables
    BY <1>2, <2>1 DEF KeysFit
  <2> QED
    BY <1>2, <2>2 DEF SourceTable
<1>3. CASE key # None /\ key.kind # "table"
  <2>1. SavedView(store, key) # None => found # << >> /\ SavedView(store, key) = found[1]
    BY DEF SavedView
  <2>2. ListFits(store.views)
    BY RangeLeft
  <2> DEFINE P == {v \in Range(store.views) : v.connection = store.selected /\ v.id = key.value}
  <2>3. found = Only(store.views, P)
    OBVIOUS
  <2> HIDE DEF P, found, key
  <2>4. found # << >> => found[1] \in Range(found)
    BY <2>2, <2>3, OnlyFits, ListBasics DEF Range
  <2>5. found # << >> => found[1] \in Range(store.views)
    BY <2>2, <2>3, <2>4, OnlyFits
  <2>6. SavedView(store, key) # None => SavedView(store, key).table \in MapTables
    BY <2>1, <2>5 DEF KeysFit
  <2> QED
    BY <1>3, <2>6 DEF SourceTable, key
<1> QED
  BY <1>1, <1>2, <1>3

(* A gesture in the form.                                                  *)
LEMMA FormChanged ==
  ASSUME StoreSound(store), PageInv, FormsInv, Do, store' = store, panel' = panel,
         flights' = flights, UNCHANGED <<entry, dialog, busy>>, form # None,
         FormHolds(form', busy.opened, store.selected),
         form' # None => form'.n = form.n /\ form'.kind = form.kind /\ form'.conn = form.conn
  PROVE  FormsStood
<1>1. PageStood
  BY PanelSimilar, StillStands
<1>2. BusyFits(busy, panelSteps') /\ shown' = shown
  BY FormsPaced DEF FormsInv, BusyFits
<1>3. FlightsHold(flights, form', dialog, busy.opened, store.selected)
  BY DEF FormsInv, FlightsHold, FlightHolds
<1>4. OneOpen(entry, form', dialog)
  BY DEF FormsInv, OneOpen
<1>5. FormsInv'
  BY <1>2, <1>3, <1>4 DEF FormsInv
<1> QED
  BY <1>1, <1>5 DEF FormsStood

(* A form is closed: what comes for it is late.                            *)
LEMMA CloseFormStands ==
  ASSUME StoreSound(store), PageInv, FormsInv, CloseForm
  PROVE  FormsStood
<1>1. /\ Do /\ store' = store /\ panel' = panel /\ flights' = flights
      /\ UNCHANGED <<entry, dialog, busy>> /\ form # None /\ form' = None
  BY DEF CloseForm, InForm, Still
<1>2. FormHolds(form', busy.opened, store.selected)
  BY <1>1 DEF FormHolds
<1> QED
  BY <1>1, <1>2, FormChanged

(* What stays of a form when the user edits it.                            *)
SameForm(q, p) ==
  /\ DOMAIN q = DOMAIN p /\ q.kind = p.kind /\ q.conn = p.conn /\ q.table = p.table
  /\ q.of = p.of /\ q.late = p.late /\ q.n = p.n
  /\ \/ q.column = p.column
     \/ q.column # None => Fits(p.kind, p.table, q.column)

(* A form that is edited.                                                  *)
LEMMA EditStands ==
  ASSUME StoreSound(store), PageInv, FormsInv, InForm, NEW q, SameForm(q, form), Edit(q)
  PROVE  FormsStood
<1>1. /\ Do /\ store' = store /\ panel' = panel /\ flights' = flights
      /\ UNCHANGED <<entry, dialog, busy>> /\ form # None /\ form' = q
  BY DEF Edit, InForm, Still
<1>2. FormHolds(q, busy.opened, store.selected)
  BY <1>1 DEF FormHolds, SameForm, FormsInv
<1>3. q.n = form.n /\ q.kind = form.kind /\ q.conn = form.conn
  BY DEF SameForm
<1> QED
  BY <1>1, <1>2, <1>3, FormChanged

(* A field that no request is about is set.                                *)
LEMMA FormEdited ==
  ASSUME FormsInv, form # None, NEW x
  PROVE  /\ SameForm([form EXCEPT !.named = x], form)
         /\ SameForm([form EXCEPT !.flowNamed = x], form)
         /\ SameForm([form EXCEPT !.flow = x], form)
         /\ SameForm([form EXCEPT !.error = x], form)
         /\ x \in FittingColumns(form.kind, form.table) \cup {None} =>
              SameForm([form EXCEPT !.column = x], form)
<1>1. DOMAIN form = FormFields
  BY DEF FormsInv, FormHolds
<1>2. SameForm([form EXCEPT !.named = x], form) /\ SameForm([form EXCEPT !.flowNamed = x], form)
  BY <1>1 DEF SameForm, FormFields
<1>3. SameForm([form EXCEPT !.flow = x], form) /\ SameForm([form EXCEPT !.error = x], form)
  BY <1>1 DEF SameForm, FormFields
<1>4. x \in FittingColumns(form.kind, form.table) \cup {None} =>
        SameForm([form EXCEPT !.column = x], form)
  <2> DEFINE q == [form EXCEPT !.column = x]
  <2>1. /\ DOMAIN q = DOMAIN form /\ q.kind = form.kind /\ q.conn = form.conn
        /\ q.table = form.table /\ q.of = form.of /\ q.late = form.late /\ q.n = form.n
        /\ q.column = x
    BY <1>1 DEF FormFields
  <2> HIDE DEF q
  <2>2. x \in FittingColumns(form.kind, form.table) \cup {None} => SameForm(q, form)
    BY <2>1 DEF SameForm, FittingColumns
  <2> QED
    BY <2>2 DEF q
<1> QED
  BY <1>2, <1>3, <1>4

(* Every edit.                                                             *)
LEMMA FormEditsStand ==
  ASSUME StoreSound(store), PageInv, FormsInv,
         NameGeometry \/ ChooseColumn \/ NameFlow \/ FormModes \/ FormStart \/ FormEnd \/ FormDensity
  PROVE  FormsStood
<1>1. InForm /\ form # None
  BY DEF InForm, Flowing, NameGeometry, ChooseColumn, NameFlow, FormModes, FormStart, FormEnd,
         FormDensity
<1>2. CASE NameGeometry
  <2> DEFINE x == ~form.named
  <2>1. Edit([form EXCEPT !.named = x])
    BY <1>2 DEF NameGeometry
  <2> HIDE DEF x
  <2> QED
    BY <1>1, <2>1, FormEdited, EditStands
<1>3. CASE ChooseColumn
  <2>1. PICK x \in FittingColumns(form.kind, form.table) \cup {None} :
          Edit([form EXCEPT !.column = x])
    BY <1>3 DEF ChooseColumn
  <2> QED
    BY <1>1, <2>1, FormEdited, EditStands
<1>4. CASE NameFlow
  <2> DEFINE x == ~form.flowNamed
  <2>1. Edit([form EXCEPT !.flowNamed = x])
    BY <1>4 DEF NameFlow
  <2> HIDE DEF x
  <2> QED
    BY <1>1, <2>1, FormEdited, EditStands
<1>5. CASE FormModes \/ FormStart \/ FormEnd \/ FormDensity
  <2>1. \E flow : Edit([form EXCEPT !.flow = flow])
    <3>1. CASE FormModes
      BY <3>1 DEF FormModes, EditFlow
    <3>2. CASE FormStart
      BY <3>2 DEF FormStart, EditFlow
    <3>3. CASE FormEnd
      BY <3>3 DEF FormEnd, EditFlow
    <3>4. CASE FormDensity
      BY <3>4 DEF FormDensity, EditFlow
    <3> QED
      BY <1>5, <3>1, <3>2, <3>3, <3>4
  <2> QED
    BY <1>1, <2>1, FormEdited, EditStands
<1> QED
  BY <1>2, <1>3, <1>4, <1>5

(* The table of a form is left.                                            *)
LEMMA LeaveTableStands ==
  ASSUME StoreSound(store), PageInv, FormsInv, LeaveTable
  PROVE  FormsStood
<1> DEFINE r == ApplyLayerSource(form, None, None, form.kind)
<1>1. /\ Do /\ store' = store /\ panel' = panel /\ flights' = flights
      /\ UNCHANGED <<entry, dialog, busy>> /\ form # None /\ form' = r
  BY DEF LeaveTable, InForm, Still
<1>2. DOMAIN form = FormFields
  BY <1>1 DEF FormsInv, FormHolds
<1>3. /\ DOMAIN r = FormFields /\ r.kind = form.kind /\ r.conn = form.conn /\ r.n = form.n
      /\ r.late = form.late /\ r.table = None
  BY <1>2, SourceTaken
<1> HIDE DEF r
<1>4. FormHolds(r, busy.opened, store.selected)
  BY <1>1, <1>3 DEF FormsInv, FormHolds
<1> QED
  BY <1>1, <1>3, <1>4, FormChanged

(* A table is chosen: known, or to be asked for with the form's number.    *)
LEMMA ChooseFormTableStands ==
  ASSUME StoreSound(store), PageInv, FormsInv, NEW t \in MapTables, ChooseFormTable(t)
  PROVE  FormsStood
<1>1. /\ Do /\ store' = store /\ panel' = panel /\ entry' = entry /\ dialog' = dialog
      /\ form # None
  BY DEF ChooseFormTable, InForm, Still
<1>2. /\ DOMAIN form = FormFields /\ form.n \in Nat /\ form.n <= busy.opened
  BY <1>1 DEF FormsInv, FormHolds
<1>3. CASE panel.metadata[t] # None
  <2> DEFINE r == ApplyLayerSource(form, t, panel.metadata[t], form.kind)
  <2>1. flights' = flights /\ busy' = busy /\ form' = r
    BY <1>3 DEF ChooseFormTable, Still
  <2>2. panel.metadata[t] = store.selected
    BY <1>3, PageChosen DEF MetadataIsOwn
  <2>3. /\ DOMAIN r = FormFields /\ r.kind = form.kind /\ r.conn = form.conn /\ r.n = form.n
        /\ r.late = form.late /\ r.table = t /\ r.of = panel.metadata[t]
        /\ t # None /\ r.column # None => Fits(form.kind, t, r.column)
    BY <1>2, SourceTaken
  <2> HIDE DEF r
  <2>4. FormHolds(r, busy.opened, store.selected)
    BY <1>1, <2>2, <2>3 DEF FormsInv, FormHolds
  <2> QED
    BY <1>1, <2>1, <2>3, <2>4, FormChanged
<1>4. CASE panel.metadata[t] = None
  <2> DEFINE q == [form EXCEPT !.error = FALSE]
             f == [Flight("form", store.selected) EXCEPT
                     !.table = t, !.pattern = form.kind, !.n = form.n]
  <2>1. form' = q /\ busy' = [busy EXCEPT !.source = TRUE] /\ flights' = flights \cup {f}
    BY <1>4 DEF ChooseFormTable
  <2>2. SameForm(q, form)
    BY <1>1, FormEdited
  <2>3. /\ f.kind = "form" /\ f.conn = store.selected /\ f.open = None /\ f.names = {}
        /\ f.pattern = form.kind /\ f.n = form.n /\ DOMAIN f = FlightFields
    BY DEF Flight, FlightFields
  <2> HIDE DEF f, q
  <2>4. FlightFits(f, shown)
    BY <2>3 DEF FlightFits
  <2>5. FlightsFit(flights', shown)
    BY <2>1, <2>4, PanelSimilar, MoreFlights
  <2>6. PageStood
    BY <1>1, <2>5, StillStands
  <2>7. FormHolds(q, busy.opened, store.selected) /\ q.n = form.n /\ q.kind = form.kind
        /\ q.conn = form.conn
    BY <1>1, <2>2 DEF FormsInv, FormHolds, SameForm
  <2>8. FlightsHold(flights, q, dialog, busy.opened, store.selected)
    BY <1>1, <2>7 DEF FormsInv, FlightsHold, FlightHolds
  <2>9. FlightHolds(f, q, dialog, busy.opened, store.selected) /\ f # Flight("servers", None)
    BY <1>2, <2>3, <2>7 DEF FlightHolds, Flight
  <2>10. FlightsHold(flights', q, dialog, busy.opened, store.selected)
    BY <2>1, <2>8, <2>9 DEF FlightsHold
  <2>11. TestsHold(store.connections, flights', busy.left)
    BY <2>1, TestsLeft DEF FormsInv
  <2>12. /\ busy'.opened = busy.opened /\ busy'.left = busy.left /\ BusyFits(busy', panelSteps')
         /\ shown' = shown
    BY <1>1, <2>1, FormsPaced DEF BusyFits, BusyFields
  <2>13. OneOpen(entry, q, dialog)
    BY <1>1 DEF FormsInv, OneOpen
  <2>14. FormsInv'
    BY <1>1, <2>1, <2>7, <2>10, <2>11, <2>12, <2>13 DEF FormsInv
  <2> QED
    BY <2>6, <2>14 DEF FormsStood
<1> QED
  BY <1>3, <1>4

(* A table comes to the form it was asked for, or makes it late.           *)
LEMMA FormTableStands ==
  ASSUME StoreSound(store), PageInv, FormsInv, NEW f,
         FormTableAnswered(f) \/ FormTableRefused(f)
  PROVE  FormsStood
<1> DEFINE a == ApplyLayerSource(form, f.table, f.conn, f.pattern)
           late == a.late \/ f.n # form.n
           r == [a EXCEPT !.late = late]
           b == ApplyLayerSource(form, None, None, f.pattern)
           missed == form.table = None
           u == [b EXCEPT !.error = missed]
<1>1. /\ Answer(f) /\ f \in flights /\ f.kind = "form" /\ flights' = flights \ {f}
      /\ store' = store /\ panel' = panel /\ entry' = entry /\ dialog' = dialog
      /\ busy' = [busy EXCEPT !.source = FALSE] /\ panelSteps' = panelSteps /\ shown' = shown
  BY DEF FormTableAnswered, FormTableRefused, Answer
<1>2. form = None => form' = None
  BY DEF FormTableAnswered, FormTableRefused
<1>3. form # None => form' = [a EXCEPT !.late = @ \/ f.n # form.n] \/ form' = u
  BY DEF FormTableAnswered, FormTableRefused
<1>4. PageStood
  BY <1>1, QuietStands
<1>5. /\ FlightsHold(flights', form, dialog, busy.opened, store.selected)
      /\ TestsHold(store.connections, flights', busy.left)
  BY <1>1, FewerHold
<1>6. busy'.opened = busy.opened /\ busy'.left = busy.left /\ BusyFits(busy', panelSteps')
  BY <1>1 DEF FormsInv, BusyFits, BusyFields
<1>7. form # None =>
        /\ FormHolds(form', busy.opened, store.selected) /\ form'.n = form.n
        /\ form'.kind = form.kind /\ form'.conn = form.conn
  <2> SUFFICES ASSUME form # None
               PROVE  /\ FormHolds(form', busy.opened, store.selected) /\ form'.n = form.n
                      /\ form'.kind = form.kind /\ form'.conn = form.conn
    OBVIOUS
  <2>1. /\ DOMAIN form = FormFields /\ form.late \in BOOLEAN
        /\ form.n \in Nat /\ form.n <= busy.opened
    BY DEF FormsInv, FormHolds
  <2>2. /\ DOMAIN a = FormFields /\ a.kind = form.kind /\ a.conn = form.conn /\ a.n = form.n
        /\ a.late = form.late /\ a.table = f.table /\ a.of = f.conn
        /\ f.table # None /\ a.column # None => Fits(f.pattern, f.table, a.column)
    BY <2>1, SourceTaken
  <2>3. /\ DOMAIN b = FormFields /\ b.kind = form.kind /\ b.conn = form.conn /\ b.n = form.n
        /\ b.late = form.late /\ b.table = None
    BY <2>1, SourceTaken
  <2> HIDE DEF a, b
  <2>4. r = [a EXCEPT !.late = @ \/ f.n # form.n]
    BY <2>2 DEF FormFields
  <2>5. late \in BOOLEAN /\ (~late => f.n = form.n)
    BY <2>2
  <2> HIDE DEF late, missed
  <2>6. /\ DOMAIN r = FormFields /\ r.kind = form.kind /\ r.conn = form.conn /\ r.n = form.n
        /\ r.late = late /\ r.table = f.table /\ r.of = f.conn /\ r.column = a.column
    BY <2>2 DEF FormFields
  <2>7. /\ DOMAIN u = FormFields /\ u.kind = form.kind /\ u.conn = form.conn /\ u.n = form.n
        /\ u.late = form.late /\ u.table = None
    BY <2>3 DEF FormFields
  <2> HIDE DEF r, u
  <2>8. f.n = form.n =>
          f.pattern = form.kind /\ (form.conn = store.selected => f.conn = form.conn)
    BY <1>1 DEF FormsInv, FlightsHold, FlightHolds
  <2>9. FormHolds(r, busy.opened, store.selected)
    BY <2>1, <2>2, <2>5, <2>6, <2>8 DEF FormHolds
  <2>10. FormHolds(u, busy.opened, store.selected)
    BY <2>1, <2>7 DEF FormHolds
  <2>11. form' = r \/ form' = u
    BY <1>3, <2>4
  <2> QED
    BY <2>6, <2>7, <2>9, <2>10, <2>11
<1>8. FormHolds(form', busy.opened, store.selected)
  BY <1>2, <1>7 DEF FormHolds
<1>9. FlightsHold(flights', form', dialog, busy.opened, store.selected)
  <2>1. CASE form = None
    BY <1>2, <1>5, <2>1
  <2>2. CASE form # None
    BY <1>5, <1>7, <2>2 DEF FlightsHold, FlightHolds
  <2> QED
    BY <2>1, <2>2
<1>10. OneOpen(entry, form', dialog)
  BY <1>2 DEF FormsInv, OneOpen
<1>11. FormsInv'
  BY <1>1, <1>5, <1>6, <1>8, <1>9, <1>10 DEF FormsInv
<1> QED
  BY <1>4, <1>11 DEF FormsStood

(* A gesture that renders the page, and opens or closes the form.          *)
LEMMA FormRendered ==
  ASSUME StoreSound(store), PageInv, FormsInv, Do, NEW s, Steady(s), NEW p, Similar(p, panel),
         NEW fs, GrownBy(fs, flights), flights \subseteq fs, FlightsFit(fs, shown),
         Render(s, p, fs, FALSE), entry' = entry, dialog' = dialog,
         OneOpen(entry, form', dialog), FormHolds(form', busy'.opened, store.selected),
         FlightsHold(flights, form', dialog, busy'.opened, store.selected),
         DialogHolds(dialog, busy'.opened, shown), BusyFits(busy', panelSteps'),
         busy'.left = busy.left
  PROVE  FormsStood
<1>1. TakesOn(s)
  BY DEF Steady, TakesOn
<1>2. PageStood
  BY <1>1, GestureStands
<1>3. /\ KeysFit(store') /\ store'.selected = store.selected
      /\ store'.connections = store.connections
      /\ GrownBy(flights', fs) /\ fs \subseteq flights'
  BY RenderedForms DEF Steady
<1>4. FlightsHold(fs, form', dialog, busy'.opened, store.selected)
  BY GrownHold
<1>5. FlightsHold(flights', form', dialog, busy'.opened, store.selected)
  BY <1>3, <1>4, GrownHold
<1>6. TestsHold(store.connections, flights, busy.left)
  BY DEF FormsInv
<1>7. TestsHold(store.connections, flights', busy.left)
  BY <1>3, <1>6, TestsLeft
<1>8. shown' = shown
  BY FormsPaced
<1>9. FormsInv'
  BY <1>3, <1>5, <1>7, <1>8 DEF FormsInv
<1> QED
  BY <1>2, <1>9 DEF FormsStood

(* A form is opened with a number no request has.                          *)
LEMMA OpenFormStands ==
  ASSUME StoreSound(store), PageInv, FormsInv, NEW kind, OpenForm(kind)
  PROVE  FormsStood
<1> DEFINE n == busy.opened + 1
           e == EmptyForm(kind, n)
           t == SourceTable(store)
           of == IF t = None THEN None ELSE panel.metadata[t]
           u == IF of = None THEN None ELSE t
           r == ApplyLayerSource(e, u, of, kind)
           p == [panel EXCEPT !.loadingSchemas = TRUE]
           g == SchemasFlight(store, TRUE)
<1>1. /\ Do /\ Works(store) /\ entry = None /\ form = None /\ dialog = None
      /\ entry' = entry /\ dialog' = dialog
      /\ form' = r /\ busy' = [busy EXCEPT !.opened = n]
  BY DEF OpenForm, OnPage, NoModal, Opened
<1>2. Render(store, p, flights \cup {g}, FALSE) \/ Render(store, panel, flights, FALSE)
  BY DEF OpenForm, LoadCatalog
<1>3. n \in Nat /\ n <= panelSteps' /\ n > busy.opened /\ busy.opened \in Nat
      /\ DOMAIN busy = BusyFields
  BY <1>1, FormsPaced
<1>4. of # None => of = store.selected
  <2>1. t \in MapTables \cup {None}
    BY SourceTableIs DEF FormsInv
  <2> HIDE DEF t
  <2> QED
    BY <2>1, PageChosen DEF MetadataIsOwn
<1>5. DOMAIN e = FormFields /\ e.conn = store.selected /\ e.n = n /\ e.late = FALSE
      /\ e.kind = kind
  BY DEF EmptyForm, FormFields
<1>6. u # None => of # None
  OBVIOUS
<1> HIDE DEF e, of, t, u
<1>7. /\ DOMAIN r = FormFields /\ r.kind = kind /\ r.conn = store.selected /\ r.n = n
      /\ r.late = FALSE /\ r.table = u /\ r.of = of
      /\ u # None /\ r.column # None => Fits(kind, u, r.column)
  BY <1>5, SourceTaken
<1> HIDE DEF r, n
<1>8. FormHolds(r, n, store.selected)
  <2>1. n \in Nat /\ n <= n
    BY <1>3
  <2>2. r.table # None => r.of = r.conn
    BY <1>4, <1>6, <1>7
  <2>3. r.table # None /\ r.column # None => Fits(r.kind, r.table, r.column)
    BY <1>7
  <2>4. r.late \in BOOLEAN
    BY <1>7
  <2> QED
    BY <1>7, <2>1, <2>2, <2>3, <2>4 DEF FormHolds
<1>9. busy'.opened = n /\ busy'.left = busy.left /\ BusyFits(busy', panelSteps')
  BY <1>1, <1>3 DEF BusyFits, BusyFields
<1>10. FlightsHold(flights, r, dialog, n, store.selected)
  <2>1. ASSUME NEW f \in flights PROVE FlightHolds(f, r, None, n, store.selected)
    <3>1. FlightHolds(f, form, dialog, busy.opened, store.selected)
      BY DEF FormsInv, FlightsHold
    <3>2. f.kind \in {"form", "configs"} => f.n \in Nat /\ f.n <= n /\ f.n # n
      BY <1>3, <3>1 DEF FlightHolds
    <3> QED
      BY <1>7, <3>1, <3>2 DEF FlightHolds
  <2> QED
    BY <1>1, <1>7, <2>1 DEF FlightsHold
<1>11. OneOpen(entry, r, dialog) /\ DialogHolds(dialog, n, shown)
  BY <1>1 DEF OneOpen, DialogHolds
<1>12. Steady(store) /\ Similar(panel, panel) /\ FlightsFit(flights, shown)
  BY SteadyItself, PanelSimilar
<1>13. Similar(p, panel)
  BY PanelSimilar DEF Similar, PanelFields
<1>14. FlightFits(g, shown) /\ Quiet(g)
  BY <1>1, SchemasFlightFits, SchemasFlightQuiet DEF PageInv
<1> HIDE DEF g, p
<1>15. FlightsFit(flights \cup {g}, shown) /\ GrownBy(flights \cup {g}, flights)
       /\ GrownBy(flights, flights)
  BY <1>12, <1>14, MoreFlights DEF GrownBy
<1>16. CASE Render(store, p, flights \cup {g}, FALSE)
  BY <1>1, <1>8, <1>9, <1>10, <1>11, <1>12, <1>13, <1>15, <1>16, FormRendered
<1>17. CASE Render(store, panel, flights, FALSE)
  BY <1>1, <1>8, <1>9, <1>10, <1>11, <1>12, <1>15, <1>17, FormRendered
<1> QED
  BY <1>2, <1>16, <1>17

(* A layer that is added leaves the connections, the views and the tables. *)
LEMMA LayeredSteady ==
  ASSUME StoreSound(store), FormsInv, NEW conn, NEW t, NEW c, NEW flow
  PROVE  /\ Steady(AddGeoJsonLayer(store, GeometryPayload(conn, t, c, "configured")))
         /\ Steady(AddArcLayer(store, FlowPayload(conn, t, flow, None)))
         /\ Steady(AddFlowmapLayer(store, FlowPayload(conn, t, flow, None)))
<1> DEFINE p == GeometryPayload(conn, t, c, "configured")
           w == FlowPayload(conn, t, flow, None)
           x == AddGeoJsonLayer(store, p)
           y == AddArcLayer(store, w)
           z == AddFlowmapLayer(store, w)
<1>1. StoreSound(x) /\ StoreSound(y) /\ StoreSound(z)
  BY GeometryTakesOn, FlowTakesOn DEF TakesOn
<1> HIDE DEF p, w
<1>2. /\ x.views = store.views /\ x.tables = store.tables
      /\ x.selected = store.selected /\ x.connections = store.connections
  BY DEF AddGeoJsonLayer, Layered
<1>3. /\ y.views = store.views /\ y.tables = store.tables
      /\ y.selected = store.selected /\ y.connections = store.connections
  BY DEF AddArcLayer, Layered
<1>4. /\ z.views = store.views /\ z.tables = store.tables
      /\ z.selected = store.selected /\ z.connections = store.connections
  BY DEF AddFlowmapLayer, Layered
<1> HIDE DEF x, y, z
<1>5. KeysFit(x) /\ KeysFit(y) /\ KeysFit(z)
  BY <1>2, <1>3, <1>4 DEF FormsInv, KeysFit
<1>6. Steady(x) /\ Steady(y) /\ Steady(z)
  BY <1>1, <1>2, <1>3, <1>4, <1>5 DEF Steady
<1> QED
  BY <1>6 DEF x, y, z, p, w

(* A form is done, and its layer added.                                    *)
LEMMA FormDone ==
  ASSUME StoreSound(store), PageInv, FormsInv, InForm, UNCHANGED <<entry, dialog, busy>>,
         form' = None, NEW s, Steady(s), Render(s, panel, flights, FALSE)
  PROVE  FormsStood
<1>1. Do /\ form # None /\ entry' = entry /\ dialog' = dialog /\ busy' = busy
  BY DEF InForm
<1>2. BusyFits(busy, panelSteps')
  BY <1>1, FormsPaced DEF FormsInv, BusyFits
<1>3. FlightsHold(flights, None, dialog, busy.opened, store.selected)
  BY DEF FormsInv, FlightsHold, FlightHolds
<1>4. OneOpen(entry, None, dialog) /\ FormHolds(None, busy.opened, store.selected)
      /\ DialogHolds(dialog, busy.opened, shown)
  BY <1>1 DEF FormsInv, OneOpen, FormHolds
<1>5. GrownBy(flights, flights) /\ Similar(panel, panel) /\ FlightsFit(flights, shown)
  BY PanelSimilar DEF GrownBy
<1> QED
  BY <1>1, <1>2, <1>3, <1>4, <1>5, FormRendered

(* The layer of a form is added.                                           *)
LEMMA CreateStands ==
  ASSUME StoreSound(store), PageInv, FormsInv, CreateGeometry \/ CreateFlow
  PROVE  FormsStood
<1>1. InForm /\ form # None
  BY DEF CreateGeometry, CreateFlow, InForm
<1>2. CASE CreateGeometry
  <2> DEFINE s == AddGeoJsonLayer(store, GeometryPayload(store.selected, form.table, form.column,
                                                         "configured"))
  <2>1. /\ Render(s, panel, flights, FALSE) \/ Render(store, panel, flights, FALSE)
        /\ form' = None /\ UNCHANGED <<entry, dialog, busy>>
    BY <1>2 DEF CreateGeometry
  <2>2. Steady(s) /\ Steady(store)
    BY LayeredSteady, SteadyItself
  <2> HIDE DEF s
  <2> QED
    BY <1>1, <2>1, <2>2, FormDone
<1>3. CASE CreateFlow
  <2> DEFINE p == FlowPayload(store.selected, form.table, form.flow, None)
             x == AddArcLayer(store, p)
             y == AddFlowmapLayer(store, p)
  <2>1. \/ Edit([form EXCEPT !.error = TRUE])
        \/ /\ Render(x, panel, flights, FALSE) \/ Render(y, panel, flights, FALSE)
           /\ form' = None /\ UNCHANGED <<entry, dialog, busy>>
    BY <1>3 DEF CreateFlow
  <2>2. Steady(x) /\ Steady(y)
    BY LayeredSteady
  <2> HIDE DEF x, y
  <2>3. SameForm([form EXCEPT !.error = TRUE], form)
    BY <1>1, FormEdited
  <2> QED
    BY <1>1, <2>1, <2>2, <2>3, FormDone, EditStands
<1> QED
  BY <1>2, <1>3

-----------------------------------------------------------------------------
(* The steps of the forms.                                                 *)
LEMMA FormAnswersStand ==
  ASSUME StoreSound(store), PageInv, FormsInv, NEW f \in flights,
         \/ TestAnswered(f) \/ ConfigsAnswered(f) \/ ConfigsRefused(f)
         \/ SaveAnswered(f) \/ SaveRefused(f) \/ FormTableAnswered(f) \/ FormTableRefused(f)
  PROVE  FormsStood
<1>1. CASE TestAnswered(f)
  BY <1>1, TestAnsweredStands
<1>2. CASE ConfigsAnswered(f) \/ ConfigsRefused(f)
  BY <1>2, ConfigsStand
<1>3. CASE SaveAnswered(f)
  BY <1>3, SaveAnsweredStands
<1>4. CASE SaveRefused(f)
  BY <1>4, SaveRefusedStands
<1>5. CASE FormTableAnswered(f) \/ FormTableRefused(f)
  BY <1>5, FormTableStands
<1> QED
  BY <1>1, <1>2, <1>3, <1>4, <1>5

(* The answers of the catalogue, which come while a form is open.          *)
LEMMA CatalogAnswersStand ==
  ASSUME StoreSound(store), PageInv, FormsInv, UNCHANGED formVars,
         \/ \E f \in flights :
              SchemasAnswered(f) \/ AllTablesAnswered(f) \/ TablesAnswered(f) \/ CatalogRefused(f)
         \/ ServersListed \/ MetadataAnswered
         \/ NoModal /\ \E c \in Range(store.connections) : store.selected # c.id /\ ChooseConnection(c)
  PROVE  FormsStood
<1>1. CatalogNext
  BY DEF CatalogNext
<1>2. PageStood
  BY <1>1, CatalogStands
<1>3. CASE \E f \in flights :
             SchemasAnswered(f) \/ AllTablesAnswered(f) \/ TablesAnswered(f) \/ CatalogRefused(f)
  BY <1>2, <1>3, CatalogAnswersForms DEF FormsStood
<1>4. CASE ServersListed
  BY <1>2, <1>4, ServersListedForms DEF FormsStood
<1>5. CASE MetadataAnswered
  BY <1>2, <1>5, MetadataForms DEF FormsStood
<1>6. CASE NoModal /\ \E c \in Range(store.connections) :
                        store.selected # c.id /\ ChooseConnection(c)
  BY <1>2, <1>6, ChosenForms DEF FormsStood
<1> QED
  BY <1>3, <1>4, <1>5, <1>6

(* Every step of the forms.                                                *)
LEMMA FormsNextStands ==
  ASSUME StoreSound(store), PageInv, FormsInv, FormsNext
  PROVE  FormsStood
<1>1. CASE OpenEntry \/ CloseEntry \/ \E filled, bundled \in BOOLEAN : FillEntry(filled, bundled)
  BY <1>1, EntryStands
<1>2. CASE SubmitEntry
  BY <1>2, SubmitStands
<1>3. ASSUME NEW c \in Range(store.connections), Test(c) \/ OpenDialog(c)
      PROVE  FormsStood
  BY <1>3, TestStands, OpenDialogStands
<1>4. CASE (\E n \in Schemas : ToggleShown(n)) \/ CloseDialog \/ SaveDialog
  BY <1>4, ToggleShownStands, CloseDialogStands, SaveDialogStands
<1>5. CASE \E kind \in {"point", "polygon", "flowmap", "arc"} : OpenForm(kind)
  BY <1>5, OpenFormStands
<1>6. CASE CloseForm \/ LeaveTable \/ \E t \in MapTables : ChooseFormTable(t)
  BY <1>6, CloseFormStands, LeaveTableStands, ChooseFormTableStands
<1>7. CASE NameGeometry \/ ChooseColumn \/ NameFlow \/ FormModes \/ FormStart \/ FormEnd
           \/ FormDensity
  BY <1>7, FormEditsStand
<1>8. CASE CreateGeometry \/ CreateFlow
  BY <1>8, CreateStands
<1>9. ASSUME NEW f \in flights,
             \/ TestAnswered(f) \/ ConfigsAnswered(f) \/ ConfigsRefused(f)
             \/ SaveAnswered(f) \/ SaveRefused(f) \/ FormTableAnswered(f) \/ FormTableRefused(f)
      PROVE  FormsStood
  BY <1>9, FormAnswersStand
<1>10. CASE /\ UNCHANGED formVars
            /\ \/ \E f \in flights :
                    \/ SchemasAnswered(f) \/ AllTablesAnswered(f) \/ TablesAnswered(f)
                    \/ CatalogRefused(f)
               \/ ServersListed \/ MetadataAnswered
               \/ /\ NoModal
                  /\ \E c \in Range(store.connections) :
                       store.selected # c.id /\ ChooseConnection(c)
  BY <1>10, CatalogAnswersStand
<1> QED
  BY <1>1, <1>2, <1>3, <1>4, <1>5, <1>6, <1>7, <1>8, <1>9, <1>10 DEF FormsNext

(* The page that is loaded with its forms closed.                          *)
LEMMA FormInitStands ==
  ASSUME StoreSound(store), KeysFit(store), PanelInit, FormInit
  PROVE  FormsInv
<1> DEFINE first == {Flight("servers", None)}
<1>1. /\ entry = None /\ form = None /\ dialog = None /\ DOMAIN busy = BusyFields
      /\ busy.opened = 0
      /\ busy.left = {c.id : c \in {x \in Range(store.connections) : x.test = "testing"}}
  BY DEF FormInit, BusyFields
<1>2. panelSteps = 0 /\ flights = Restored(store, EmptyPanel, first)
  BY DEF PanelInit
<1>3. FlightsHold(first, None, None, 0, store.selected)
  BY DEF FlightsHold, FlightHolds, Flight
<1> HIDE DEF first
<1>4. GrownBy(flights, first)
  BY <1>2, SchemasFlightQuiet DEF GrownBy, Restored
<1>5. FlightsHold(flights, None, None, 0, store.selected)
  BY <1>3, <1>4, GrownHold
<1>6. TestsHold(store.connections, flights, busy.left)
  BY <1>1 DEF TestsHold
<1> QED
  BY <1>1, <1>2, <1>5, <1>6
     DEF FormsInv, EntryFits, BusyFits, FormHolds, DialogHolds, OneOpen

(* The properties of the forms.                                            *)
LEMMA FormsTyped ==
  ASSUME PageInv, FormsInv
  PROVE  FormsTypeOK
<1>1. DOMAIN EmptyForm("point", 0) = FormFields
  BY DEF EmptyForm, FormFields
<1>2. busy.opened \in 0..PanelGestures
  BY PanelConstants DEF FormsInv, BusyFits, PageInv
<1>3. entry = None \/ entry.filled \in BOOLEAN
  BY DEF FormsInv, EntryFits
<1>4. form = None \/ DOMAIN form = DOMAIN EmptyForm("point", 0)
  BY <1>1 DEF FormsInv, FormHolds
<1>5. dialog = None \/ DOMAIN dialog = {"conn", "configs", "late", "n"}
  BY DEF FormsInv, DialogHolds
<1>6. KeysFit(store) /\ (entry # None => form = None /\ dialog = None)
      /\ (form # None => dialog = None)
  BY DEF FormsInv, OneOpen
<1> QED
  BY <1>2, <1>3, <1>4, <1>5, <1>6 DEF FormsTypeOK

(* What ChoicesStand says of the forms.                                    *)
LEMMA FormsChosen ==
  ASSUME FormsInv
  PROVE  FormFits /\ DialogFits /\ TestsRun
<1>1. FormFits
  BY DEF FormsInv, FormHolds, FormFits, GeometryKind
<1>2. DialogFits
  BY DEF FormsInv, DialogHolds, DialogFits
<1>3. TestsRun
  BY DEF FormsInv, TestsHold, TestsRun
<1> QED
  BY <1>1, <1>2, <1>3

-----------------------------------------------------------------------------
(***************************************************************************)
(* The whole: the invariant of the place a behaviour is in.                *)
(***************************************************************************)
ConsoleInv ==
  /\ StoreSound(store) /\ storeSteps \in 0..StoreGestures
  /\ place = "editor" => EditorInv
  /\ place \in {"catalog", "map", "forms"} => PageInv
  /\ place = "forms" => FormsInv
consoleVars == <<storeVars, editorVars, panelVars, formVars, place>>

(* What every page starts with.                                            *)
LEMMA ConsoleStarts == ConnectionsInit => ConsoleInv
<1> SUFFICES ASSUME ConnectionsInit PROVE ConsoleInv
  OBVIOUS
<1>1. StoreSound(store) /\ KeysFit(store) /\ storeSteps \in 0..StoreGestures
  <2>1. PICK stored \in FirstStored : StoreInit(stored)
    BY DEF ConnectionsInit
  <2> QED
    BY <2>1, StoreInitSound, StoreConstants DEF StoreInit
<1>2. CASE place = "store"
  BY <1>1, <1>2 DEF ConsoleInv
<1>3. CASE place = "editor" /\ EditorInit
  BY <1>1, <1>3, EditorStarts DEF ConsoleInv
<1>4. CASE place \in {"catalog", "map"} /\ PanelInit
  BY <1>1, <1>4, PageInitStands DEF ConsoleInv
<1>5. CASE place = "forms" /\ PanelInit /\ FormInit
  BY <1>1, <1>5, PageInitStands, FormInitStands DEF ConsoleInv
<1> QED
  BY <1>2, <1>3, <1>4, <1>5 DEF ConnectionsInit

(* Every step keeps the invariant of its place.                            *)
LEMMA ConsoleKeeps == ConsoleInv /\ [ConnectionsNext]_consoleVars => ConsoleInv'
<1> SUFFICES ASSUME ConsoleInv, [ConnectionsNext]_consoleVars PROVE ConsoleInv'
  OBVIOUS
<1>1. StoreSound(store) /\ storeSteps \in 0..StoreGestures
  BY DEF ConsoleInv
<1>2. CASE /\ place = "store" /\ place' = place /\ StoreNext
  <2>1. storeSteps' \in 0..StoreGestures
    <3> DEFINE Counted == storeSteps < StoreGestures /\ storeSteps' = storeSteps + 1
    <3>1. \A s : Call(s) => Counted
      BY DEF Call
    <3> HIDE DEF Counted
    <3>2. ConnectionCalled \/ ViewCalled => Counted
      BY <3>1 DEF ConnectionCalled, ViewCalled
    <3>3. LayerCalled => Counted
      BY <3>1, Zenon DEF LayerCalled
    <3> QED
      BY <1>1, <1>2, <3>2, <3>3, StoreConstants DEF StoreNext, Counted
  <2> QED
    BY <1>1, <1>2, <2>1, StoreNextKeeps DEF ConsoleInv
<1>3. CASE /\ place = "editor" /\ place' = place /\ EditorNext /\ storeSteps' = storeSteps
  BY <1>1, <1>3, EditorNextKeeps DEF ConsoleInv
<1>4. CASE /\ place = "catalog" /\ place' = place /\ CatalogNext /\ storeSteps' = storeSteps
  BY <1>1, <1>4, CatalogStands DEF ConsoleInv, PageStood
<1>5. CASE /\ place = "map" /\ place' = place /\ MapNext /\ storeSteps' = storeSteps
  BY <1>1, <1>5, MapStands DEF ConsoleInv, PageStood
<1>6. CASE /\ place = "forms" /\ place' = place /\ FormsNext /\ storeSteps' = storeSteps
  <2>1. FormsStood
    BY <1>1, <1>6, FormsNextStands DEF ConsoleInv
  <2> QED
    BY <1>1, <1>6, <2>1 DEF ConsoleInv, FormsStood, PageStood
<1>7. CASE UNCHANGED consoleVars
  <2>1. /\ store' = store /\ storeSteps' = storeSteps /\ place' = place
        /\ UNCHANGED editorVars /\ UNCHANGED panelVars /\ UNCHANGED formVars
    BY <1>7 DEF consoleVars, storeVars
  <2>2. EditorInv' = EditorInv
    BY <2>1 DEF editorVars, EditorInv, EditorTypeOK, DraftsShown, Edited
  <2>3. PageInv' = PageInv
    BY <2>1 DEF panelVars, PageInv
  <2>4. FormsInv' = FormsInv
    BY <2>1 DEF panelVars, formVars, FormsInv
  <2> QED
    BY <1>1, <2>1, <2>2, <2>3, <2>4 DEF ConsoleInv
<1> QED
  BY <1>2, <1>3, <1>4, <1>5, <1>6, <1>7 DEF ConnectionsNext

(* It shows the properties.                                                *)
LEMMA ConsoleShows == ConsoleInv => ConsoleTypeOK /\ LayersStand /\ ChoicesStand
<1> SUFFICES ASSUME ConsoleInv PROVE ConsoleTypeOK /\ LayersStand /\ ChoicesStand
  OBVIOUS
<1>1. ConsoleTypeOK
  BY PageTyped, FormsTyped
     DEF ConsoleInv, ConsoleTypeOK, StoreSound, StoreTypeOK, EditorInv
<1>2. LayersStand
  BY DEF ConsoleInv, LayersStand, StoreSound
<1>3. ChoicesStand
  BY PageChosen, FormsChosen DEF ConsoleInv, ChoicesStand, EditorInv
<1> QED
  BY <1>1, <1>2, <1>3

(* In every behaviour, whatever is called in whatever order, each identity *)
(* is given once and every list, page, form and setting keeps its type.     *)
THEOREM ConsoleKeepsItsTypes == ConnectionsSpec => []ConsoleTypeOK
  BY ConsoleStarts, ConsoleKeeps, ConsoleShows, PTL DEF ConnectionsSpec, consoleVars

(* In every behaviour a layer draws a source of its connection, a source is *)
(* drawn, it follows its column and its view, and a connection is selected. *)
THEOREM LayersAlwaysStand == ConnectionsSpec => []LayersStand
  BY ConsoleStarts, ConsoleKeeps, ConsoleShows, PTL DEF ConnectionsSpec, consoleVars

(* In every behaviour what the page, the forms and the settings show is of  *)
(* the connection, the layer and the kind they are for.                     *)
THEOREM ChoicesAlwaysStand == ConnectionsSpec => []ChoicesStand
  BY ConsoleStarts, ConsoleKeeps, ConsoleShows, PTL DEF ConnectionsSpec, consoleVars
=============================================================================
