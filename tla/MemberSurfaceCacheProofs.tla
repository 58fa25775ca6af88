----------------------- MODULE MemberSurfaceCacheProofs -----------------------
(***************************************************************************)
(* The member cache holds nothing stale, and is invisible to those who     *)
(* ask: for all labels, threads and receivers, and all bounds.             *)
(*                                                                         *)
(* The argument: an identity is new when it is given, so a build keeps its *)
(* token and version only if the cache was neither handed over nor its     *)
(* model invalidated since; and every change hands over or invalidates.    *)
(* So IInv says, beside what is cached, that a result which may still      *)
(* enter the cache is current (HeldOK), and that neither is older than a   *)
(* question asked meanwhile (AskedOK, PairOK).  That the builds under way  *)
(* are counted (BuildsOK) rests on no more than that a call keeps its      *)
(* token and key from the miss to the finally block.                       *)
(***************************************************************************)
EXTENDS MemberSurfaceCache, FiniteSetTheorems, TLAPS

-----------------------------------------------------------------------------
(* The cache, and what its operations do to it.                            *)

KeySets == SUBSET Keys

IsPartial(f, S, T) == f \in [DOMAIN f -> T] /\ DOMAIN f \subseteq S

Tokens == Ids \cup {NoId}

Tagged == Tokens \X Labels

Surfaces == [stamp : Nat, live : BOOLEAN]

SomeOwners == [index : Nat, view : Nat]

Fields(o, token, ready, lists, keysByModel, versions, inflight) ==
  [owner |-> o, token |-> token, ready |-> ready, lists |-> lists, keysByModel |-> keysByModel,
   versions |-> versions, inflight |-> inflight]

IsCache(c) ==
  /\ c = Fields(c.owner, c.token, c.ready, c.lists, c.keysByModel, c.versions, c.inflight)
  /\ c.owner \in SomeOwners /\ c.token \in Tokens /\ c.ready \in BOOLEAN
  /\ IsPartial(c.lists, Keys, Surfaces)
  /\ IsPartial(c.keysByModel, Labels, KeySets)
  /\ IsPartial(c.versions, Labels, Tokens)
  /\ IsPartial(c.inflight, Tagged, Nat)

\* KeysAreTracked and VersionsAreOwned, of any cache.
Tracked(c) ==
  \A l \in Labels :
    {k \in DOMAIN c.lists : k[1] = l} = IF l \in DOMAIN c.keysByModel THEN c.keysByModel[l] ELSE {}

Owned(c) ==
  \A l \in DOMAIN c.versions : l \in DOMAIN c.keysByModel \/ <<c.token, l>> \in DOMAIN c.inflight

SameOwner(c, d) == d.owner = c.owner /\ d.token = c.token /\ d.ready = c.ready

SameEntries(c, d) == d.lists = c.lists

\* d holds some of the entries of c, and none of the labels.
SomeEntries(c, d, labels) ==
  \A k \in DOMAIN d.lists : k \in DOMAIN c.lists /\ k[1] \notin labels /\ d.lists[k] = c.lists[k]

\* d has some of the versions of c.
OldVersions(c, d) ==
  \A l \in DOMAIN d.versions : l \in DOMAIN c.versions /\ d.versions[l] = c.versions[l]

\* d has some of the versions of c, and perhaps the new one.
SomeVersions(c, d, id) ==
  \A l \in DOMAIN d.versions : d.versions[l] = id \/ (l \in DOMAIN c.versions /\ d.versions[l] = c.versions[l])

\* d has none of the versions that c has of the labels.
NewVersions(d, labels, id) == \A l \in DOMAIN d.versions : l \in labels => d.versions[l] = id

Added(c, d, key, surface) ==
  /\ DOMAIN d.lists = DOMAIN c.lists \cup {key}
  /\ \A k \in DOMAIN d.lists : d.lists[k] = IF k = key THEN surface ELSE c.lists[k]

\* The fields that a miss changes.
LEMMA MissedFieldsFact ==
  ASSUME NEW c, IsCache(c), NEW versions, NEW inflight
  PROVE  [c EXCEPT !.versions = versions, !.inflight = inflight]
           = Fields(c.owner, c.token, c.ready, c.lists, c.keysByModel, versions, inflight)
<1> DEFINE c1 == [c EXCEPT !.versions = versions]
           c2 == [c1 EXCEPT !.inflight = inflight]
<1>1. [c EXCEPT !.versions = versions, !.inflight = inflight] = c2
  OBVIOUS
<1> HIDE DEF c1, c2
<1>2. c = Fields(c.owner, c.token, c.ready, c.lists, c.keysByModel, c.versions, c.inflight)
  BY DEF IsCache
<1>3. c1 = Fields(c.owner, c.token, c.ready, c.lists, c.keysByModel, versions, c.inflight)
  BY <1>2 DEF c1, Fields
<1>4. c2 = Fields(c.owner, c.token, c.ready, c.lists, c.keysByModel, versions, inflight)
  BY <1>3 DEF c2, Fields
<1>5. QED
  BY <1>1, <1>4

\* The fields that a publication changes.
LEMMA PublishedFieldsFact ==
  ASSUME NEW c, IsCache(c), NEW lists, NEW keys
  PROVE  [c EXCEPT !.lists = lists, !.keysByModel = keys]
           = Fields(c.owner, c.token, c.ready, lists, keys, c.versions, c.inflight)
<1> DEFINE c1 == [c EXCEPT !.lists = lists]
           c2 == [c1 EXCEPT !.keysByModel = keys]
<1>1. [c EXCEPT !.lists = lists, !.keysByModel = keys] = c2
  OBVIOUS
<1> HIDE DEF c1, c2
<1>2. c = Fields(c.owner, c.token, c.ready, c.lists, c.keysByModel, c.versions, c.inflight)
  BY DEF IsCache
<1>3. c1 = Fields(c.owner, c.token, c.ready, lists, c.keysByModel, c.versions, c.inflight)
  BY <1>2 DEF c1, Fields
<1>4. c2 = Fields(c.owner, c.token, c.ready, lists, keys, c.versions, c.inflight)
  BY <1>3 DEF c2, Fields
<1>5. QED
  BY <1>1, <1>4

\* The fields that an invalidation changes.
LEMMA InvalidatedFieldsFact ==
  ASSUME NEW c, IsCache(c), NEW lists, NEW keys, NEW versions
  PROVE  [c EXCEPT !.lists = lists, !.keysByModel = keys, !.versions = versions]
           = Fields(c.owner, c.token, c.ready, lists, keys, versions, c.inflight)
<1> DEFINE c1 == [c EXCEPT !.lists = lists]
           c2 == [c1 EXCEPT !.keysByModel = keys]
           c3 == [c2 EXCEPT !.versions = versions]
<1>1. [c EXCEPT !.lists = lists, !.keysByModel = keys, !.versions = versions] = c3
  OBVIOUS
<1> HIDE DEF c1, c2, c3
<1>2. c = Fields(c.owner, c.token, c.ready, c.lists, c.keysByModel, c.versions, c.inflight)
  BY DEF IsCache
<1>3. c1 = Fields(c.owner, c.token, c.ready, lists, c.keysByModel, c.versions, c.inflight)
  BY <1>2 DEF c1, Fields
<1>4. c2 = Fields(c.owner, c.token, c.ready, lists, keys, c.versions, c.inflight)
  BY <1>3 DEF c2, Fields
<1>5. c3 = Fields(c.owner, c.token, c.ready, lists, keys, versions, c.inflight)
  BY <1>4 DEF c3, Fields
<1>6. QED
  BY <1>1, <1>5

\* _clean_model_version drops versions and nothing else.
LEMMA CleanFact ==
  ASSUME NEW c, IsCache(c), NEW labels,
         NEW d, d = CleanModelVersions(c, labels)
  PROVE  /\ IsCache(d)
         /\ d = Fields(c.owner, c.token, c.ready, c.lists, c.keysByModel, d.versions, c.inflight)
         /\ DOMAIN d.versions \subseteq DOMAIN c.versions
         /\ \A l \in DOMAIN d.versions : d.versions[l] = c.versions[l]
         /\ \A l \in DOMAIN d.versions : l \in labels =>
              l \in DOMAIN c.keysByModel \/ <<c.token, l>> \in DOMAIN c.inflight
<1> DEFINE kept == {l \in Labels : l \in labels => l \in DOMAIN c.keysByModel \/ <<c.token, l>> \in DOMAIN c.inflight}
           v == Restricted(c.versions, kept)
<1>1. CleanModelVersions(c, labels) = [c EXCEPT !.versions = v]
  BY DEF CleanModelVersions
<1>2. /\ DOMAIN v = DOMAIN c.versions \cap kept
      /\ \A l \in DOMAIN v : v[l] = c.versions[l]
      /\ IsPartial(v, Labels, Tokens)
  BY DEF Restricted, IsCache, IsPartial
<1>3. \A l \in kept \cap labels : l \in DOMAIN c.keysByModel \/ <<c.token, l>> \in DOMAIN c.inflight
  OBVIOUS
<1> HIDE DEF kept, v
<1>4. [c EXCEPT !.versions = v] = Fields(c.owner, c.token, c.ready, c.lists, c.keysByModel, v, c.inflight)
  BY DEF IsCache, Fields
<1>5. [c EXCEPT !.versions = v].versions = v
  BY <1>4 DEF Fields
<1>6. IsCache([c EXCEPT !.versions = v])
  BY <1>2, <1>4 DEF IsCache, Fields
<1>7. QED
  BY <1>1, <1>2, <1>3, <1>4, <1>5, <1>6

\* _set_owner, for what it keeps of the entries.
Handed(c, o, ready, id, lists, keys, versions) ==
  CleanModelVersions([c EXCEPT !.owner = o, !.token = id, !.ready = ready, !.lists = lists, !.keysByModel = keys,
                        !.versions = versions], {k[2] : k \in DOMAIN c.inflight})

\* What _set_owner leaves.
LEMMA HandedFact ==
  ASSUME NEW c, IsCache(c), NEW o \in SomeOwners, NEW ready \in BOOLEAN, NEW id \in Ids,
         NEW lists, IsPartial(lists, Keys, Surfaces), NEW keys, IsPartial(keys, Labels, KeySets),
         NEW versions, IsPartial(versions, Labels, Tokens),
         NEW d, d = Handed(c, o, ready, id, lists, keys, versions)
  PROVE  /\ IsCache(d)
         /\ d = Fields(o, id, ready, lists, keys, d.versions, c.inflight)
         /\ DOMAIN d.versions \subseteq DOMAIN versions
         /\ \A l \in DOMAIN d.versions :
              l \in DOMAIN keys \/ <<id, l>> \in DOMAIN c.inflight \/ (\A b \in DOMAIN c.inflight : b[2] # l)
<1> DEFINE labels == {k[2] : k \in DOMAIN c.inflight}
           c1 == [c EXCEPT !.owner = o]
           c2 == [c1 EXCEPT !.token = id]
           c3 == [c2 EXCEPT !.ready = ready]
           c4 == [c3 EXCEPT !.lists = lists]
           c5 == [c4 EXCEPT !.keysByModel = keys]
           h == [c5 EXCEPT !.versions = versions]
<1>1. d = CleanModelVersions(h, labels)
  BY DEF Handed
<1>1a. \A b \in DOMAIN c.inflight : b[2] \in labels
  OBVIOUS
<1> HIDE DEF labels, c1, c2, c3, c4, c5, h
<1>2. h = Fields(o, id, ready, lists, keys, versions, c.inflight)
  <2>1. c = Fields(c.owner, c.token, c.ready, c.lists, c.keysByModel, c.versions, c.inflight)
    BY DEF IsCache
  <2>2. c1 = Fields(o, c.token, c.ready, c.lists, c.keysByModel, c.versions, c.inflight)
    BY <2>1 DEF c1, Fields
  <2>3. c2 = Fields(o, id, c.ready, c.lists, c.keysByModel, c.versions, c.inflight)
    BY <2>2 DEF c2, Fields
  <2>4. c3 = Fields(o, id, ready, c.lists, c.keysByModel, c.versions, c.inflight)
    BY <2>3 DEF c3, Fields
  <2>5. c4 = Fields(o, id, ready, lists, c.keysByModel, c.versions, c.inflight)
    BY <2>4 DEF c4, Fields
  <2>6. c5 = Fields(o, id, ready, lists, keys, c.versions, c.inflight)
    BY <2>5 DEF c5, Fields
  <2>7. h = Fields(o, id, ready, lists, keys, versions, c.inflight)
    BY <2>6 DEF h, Fields
  <2>8. QED
    BY <2>7
<1>3. /\ h.owner = o /\ h.token = id /\ h.ready = ready /\ h.inflight = c.inflight
      /\ h.lists = lists /\ h.keysByModel = keys /\ h.versions = versions
  BY <1>2 DEF Fields
<1>4. IsCache(h)
  BY <1>2, <1>3 DEF IsCache, Tokens
<1>5. /\ IsCache(d)
      /\ d = Fields(h.owner, h.token, h.ready, h.lists, h.keysByModel, d.versions, h.inflight)
      /\ DOMAIN d.versions \subseteq DOMAIN h.versions
      /\ \A l \in DOMAIN d.versions : l \in labels =>
           l \in DOMAIN h.keysByModel \/ <<h.token, l>> \in DOMAIN h.inflight
  BY <1>1, <1>4, CleanFact
<1>6. \A l \in DOMAIN d.versions :
        l \in DOMAIN keys \/ <<id, l>> \in DOMAIN c.inflight \/ (\A b \in DOMAIN c.inflight : b[2] # l)
  BY <1>1a, <1>3, <1>5
<1>7. d = Fields(o, id, ready, lists, keys, d.versions, c.inflight)
  BY <1>3, <1>5
<1>8. QED
  BY <1>3, <1>5, <1>6, <1>7

\* It clears the cache, or keeps what it holds.
Cleared(c, o, ready, id) == Handed(c, o, ready, id, Nothing, Nothing, Nothing)

Kept(c, o, ready, id) == Handed(c, o, ready, id, c.lists, c.keysByModel, c.versions)

\* _set_owner with a clear empties the cache.
LEMMA ClearedFact ==
  ASSUME NEW c, IsCache(c), NEW o \in SomeOwners, NEW ready \in BOOLEAN, NEW id \in Ids,
         NEW d, d = Cleared(c, o, ready, id)
  PROVE  /\ IsCache(d) /\ d.owner = o /\ d.token = id /\ d.ready = ready
         /\ DOMAIN d.lists = {}
         /\ Tracked(d) /\ Owned(d)
<1>1. d = Handed(c, o, ready, id, Nothing, Nothing, Nothing)
  BY DEF Cleared
<1>2. /\ IsPartial(Nothing, Keys, Surfaces) /\ IsPartial(Nothing, Labels, KeySets)
      /\ IsPartial(Nothing, Labels, Tokens) /\ DOMAIN Nothing = {}
  BY DEF IsPartial, Nothing
<1>3. /\ IsCache(d)
      /\ d = Fields(o, id, ready, Nothing, Nothing, d.versions, c.inflight)
      /\ DOMAIN d.versions \subseteq DOMAIN Nothing
  BY <1>1, <1>2, HandedFact
<1>4. d.lists = Nothing /\ d.keysByModel = Nothing
  BY <1>3 DEF Fields
<1>5. d.owner = o /\ d.token = id /\ d.ready = ready
  BY <1>3 DEF Fields
<1>6. DOMAIN d.lists = {} /\ Tracked(d) /\ Owned(d)
  BY <1>2, <1>3, <1>4 DEF Tracked, Owned
<1>7. QED
  BY <1>3, <1>5, <1>6

\* _set_owner without a clear keeps what is cached.
LEMMA KeptFact ==
  ASSUME NEW c, IsCache(c), NEW o \in SomeOwners, NEW ready \in BOOLEAN, NEW id \in Ids,
         NEW d, d = Kept(c, o, ready, id)
  PROVE  /\ IsCache(d) /\ d.owner = o /\ d.token = id /\ d.ready = ready
         /\ SameEntries(c, d)
         /\ Tracked(c) => Tracked(d)
         /\ Owned(c) => Owned(d)
<1>1. d = Handed(c, o, ready, id, c.lists, c.keysByModel, c.versions)
  BY DEF Kept
<1>2. /\ IsPartial(c.lists, Keys, Surfaces) /\ IsPartial(c.keysByModel, Labels, KeySets)
      /\ IsPartial(c.versions, Labels, Tokens)
  BY DEF IsCache
<1>3. /\ IsCache(d)
      /\ d = Fields(o, id, ready, c.lists, c.keysByModel, d.versions, c.inflight)
      /\ DOMAIN d.versions \subseteq DOMAIN c.versions
      /\ \A l \in DOMAIN d.versions :
           l \in DOMAIN c.keysByModel \/ <<id, l>> \in DOMAIN c.inflight \/ (\A b \in DOMAIN c.inflight : b[2] # l)
  BY <1>1, <1>2, HandedFact
<1>4. d.lists = c.lists /\ d.keysByModel = c.keysByModel /\ d.token = id /\ d.inflight = c.inflight
  BY <1>3 DEF Fields
<1>5. ASSUME Owned(c) PROVE Owned(d)
  <2> SUFFICES ASSUME NEW l \in DOMAIN d.versions, l \notin DOMAIN c.keysByModel
               PROVE <<id, l>> \in DOMAIN c.inflight
    BY <1>4 DEF Owned
  <2>1. <<c.token, l>> \in DOMAIN c.inflight
    BY <1>3, <1>5 DEF Owned
  <2>2. QED
    BY <2>1, <1>3
<1>6. Tracked(c) => Tracked(d)
  BY <1>4 DEF Tracked
<1>7. d.owner = o /\ d.token = id /\ d.ready = ready /\ SameEntries(c, d)
  BY <1>3 DEF Fields, SameEntries
<1>8. QED
  BY <1>3, <1>5, <1>6, <1>7

\* _check_owner empties the cache, or finds it as it is.
LEMMA CheckOwnerFact ==
  ASSUME NEW c, IsCache(c), NEW o \in SomeOwners, registry \in BOOLEAN, NEW id \in Ids,
         NEW d, d = CheckOwner(c, o, id)
  PROVE  /\ IsCache(d)
         /\ d.owner = o /\ d.ready = registry
         /\ d = c \/ (d.token = id /\ DOMAIN d.lists = {})
         /\ Tracked(c) => Tracked(d)
         /\ Owned(c) => Owned(d)
<1>1. CASE c.owner # o \/ c.ready # registry
  <2>1. d = Cleared(c, o, registry, id)
    BY <1>1 DEF CheckOwner, SetOwner, Cleared, Handed
  <2>2. QED
    BY <2>1, ClearedFact
<1>2. CASE ~(c.owner # o \/ c.ready # registry)
  <2>1. d = c
    BY <1>2 DEF CheckOwner
  <2>2. c.ready = registry
    BY <1>2, Zenon
  <2>3. QED
    BY <1>2, <2>1, <2>2
<1>3. QED
  BY <1>1, <1>2

\* A miss in get_list keeps what is cached, and notes a version.
LEMMA MissedFact ==
  ASSUME NEW c, IsCache(c), NEW label \in Labels, NEW id \in Ids,
         NEW d, d = Missed(c, label, id)
  PROVE  /\ IsCache(d) /\ SameOwner(c, d) /\ SameEntries(c, d) /\ SomeVersions(c, d, id)
         /\ label \in DOMAIN d.versions
         /\ Tracked(c) => Tracked(d)
         /\ Owned(c) => Owned(d)
<1> DEFINE build == <<c.token, label>>
           v == [l \in DOMAIN c.versions \cup {label} |-> IF l \in DOMAIN c.versions THEN c.versions[l] ELSE id]
           f == [b \in DOMAIN c.inflight \cup {build} |->
                   IF b \notin DOMAIN c.inflight THEN 1
                   ELSE IF b = build THEN c.inflight[b] + 1 ELSE c.inflight[b]]
           e == Fields(c.owner, c.token, c.ready, c.lists, c.keysByModel, v, f)
<1>0. [c EXCEPT !.versions = v, !.inflight = f] = e
  BY MissedFieldsFact
<1>1. d = e
  BY <1>0 DEF Missed
<1>2. IsPartial(v, Labels, Tokens)
  BY DEF IsCache, IsPartial, Tokens
<1>3. IsPartial(f, Tagged, Nat)
  <2>1. build \in Tagged
    BY DEF IsCache, Tagged
  <2>2. \A b \in DOMAIN c.inflight : c.inflight[b] \in Nat
    BY DEF IsCache, IsPartial
  <2>3. f \in [DOMAIN f -> Nat]
    BY <2>2
  <2>4. DOMAIN c.inflight \subseteq Tagged
    BY DEF IsCache, IsPartial
  <2>5. QED
    BY <2>1, <2>3, <2>4 DEF IsPartial
<1>4. DOMAIN v = DOMAIN c.versions \cup {label}
  OBVIOUS
<1>5. \A l \in DOMAIN v : v[l] = IF l \in DOMAIN c.versions THEN c.versions[l] ELSE id
  OBVIOUS
<1>6. DOMAIN f = DOMAIN c.inflight \cup {<<c.token, label>>}
  OBVIOUS
<1> HIDE DEF v, f
<1>7. IsCache(d) /\ d.versions = v /\ d.inflight = f /\ d.token = c.token /\ d.keysByModel = c.keysByModel
  BY <1>1, <1>2, <1>3 DEF IsCache, Fields, e
<1> HIDE DEF e
<1>8. Owned(c) => Owned(d)
  BY <1>4, <1>6, <1>7 DEF Owned
<1>9. SameOwner(c, d) /\ SameEntries(c, d) /\ (Tracked(c) => Tracked(d))
  BY <1>1 DEF e, Fields, SameOwner, SameEntries, Tracked
<1>10. SomeVersions(c, d, id) /\ label \in DOMAIN d.versions
  BY <1>4, <1>5, <1>7 DEF SomeVersions
<1>11. QED
  BY <1>7, <1>8, <1>9, <1>10

\* _finish_build keeps what is cached, and notes no version.
LEMMA FinishFact ==
  ASSUME NEW c, IsCache(c), NEW token \in Tokens, NEW label \in Labels,
         NEW d, d = FinishBuild(c, token, label)
  PROVE  /\ IsCache(d) /\ SameOwner(c, d) /\ SameEntries(c, d)
         /\ OldVersions(c, d)
         /\ Tracked(c) => Tracked(d)
         /\ Owned(c) => Owned(d)
<1> DEFINE build == <<token, label>>
           f == IF c.inflight[build] > 1 THEN [c.inflight EXCEPT ![build] = @ - 1]
                ELSE Restricted(c.inflight, DOMAIN c.inflight \ {build})
           e == Fields(c.owner, c.token, c.ready, c.lists, c.keysByModel, c.versions, f)
<1>1. d = CleanModelVersions(e, {label})
  <2>1. CASE c.inflight[build] > 1
    <3>1. e = [c EXCEPT !.inflight[build] = @ - 1]
      BY <2>1 DEF IsCache, Fields
    <3>2. QED
      BY <2>1, <3>1 DEF FinishBuild
  <2>2. CASE ~(c.inflight[build] > 1)
    <3>1. e = [c EXCEPT !.inflight = Restricted(c.inflight, DOMAIN c.inflight \ {build})]
      BY <2>2 DEF IsCache, Fields
    <3>2. QED
      BY <2>2, <3>1 DEF FinishBuild
  <2>3. QED
    BY <2>1, <2>2
<1>2. /\ IsPartial(f, Tagged, Nat)
      /\ DOMAIN c.inflight \ {build} \subseteq DOMAIN f
  <2>1. IsPartial(c.inflight, Tagged, Nat)
    BY DEF IsCache
  <2>2. CASE c.inflight[build] > 1
    <3>1. f = [c.inflight EXCEPT ![build] = @ - 1]
      BY <2>2
    <3>2. build \in DOMAIN c.inflight => c.inflight[build] - 1 \in Nat
      BY <2>1, <2>2 DEF IsPartial
    <3>3. QED
      BY <2>1, <3>1, <3>2 DEF IsPartial
  <2>3. CASE ~(c.inflight[build] > 1)
    BY <2>1, <2>3 DEF IsPartial, Restricted
  <2>4. QED
    BY <2>2, <2>3
<1> HIDE DEF f
<1>3. IsCache(e) /\ e.versions = c.versions /\ e.inflight = f /\ e.keysByModel = c.keysByModel /\ e.token = c.token
        /\ e.owner = c.owner /\ e.ready = c.ready /\ e.lists = c.lists
  BY <1>2 DEF IsCache, Fields
<1> HIDE DEF e
<1>4. /\ IsCache(d)
      /\ d = Fields(e.owner, e.token, e.ready, e.lists, e.keysByModel, d.versions, e.inflight)
      /\ DOMAIN d.versions \subseteq DOMAIN e.versions
      /\ \A l \in DOMAIN d.versions : d.versions[l] = e.versions[l]
      /\ \A l \in DOMAIN d.versions : l \in {label} =>
           l \in DOMAIN e.keysByModel \/ <<e.token, l>> \in DOMAIN e.inflight
  BY <1>1, <1>3, CleanFact
<1>5. d.token = c.token /\ d.keysByModel = c.keysByModel /\ d.inflight = f
  BY <1>3, <1>4 DEF Fields
<1>6. Owned(c) => Owned(d)
  BY <1>2, <1>3, <1>4, <1>5 DEF Owned
<1>7. SameOwner(c, d) /\ SameEntries(c, d) /\ (Tracked(c) => Tracked(d))
  BY <1>3, <1>4 DEF Fields, SameOwner, SameEntries, Tracked
<1>8. OldVersions(c, d)
  BY <1>3, <1>4 DEF OldVersions
<1>9. QED
  BY <1>4, <1>6, <1>7, <1>8

\* A publication adds one entry, to the list of keys too.
LEMMA PublishedFact ==
  ASSUME NEW c, IsCache(c), NEW key \in Keys, NEW surface \in Surfaces,
         NEW d, d = Published(c, key, surface)
  PROVE  /\ IsCache(d) /\ SameOwner(c, d) /\ d.versions = c.versions
         /\ Added(c, d, key, surface)
         /\ Tracked(c) => Tracked(d)
         /\ Owned(c) => Owned(d)
<1> DEFINE keys == IF key[1] \in DOMAIN c.keysByModel THEN c.keysByModel[key[1]] \cup {key} ELSE {key}
           lists == [k \in DOMAIN c.lists \cup {key} |-> IF k = key THEN surface ELSE c.lists[k]]
           byModel == [l \in DOMAIN c.keysByModel \cup {key[1]} |-> IF l = key[1] THEN keys ELSE c.keysByModel[l]]
           e == Fields(c.owner, c.token, c.ready, lists, byModel, c.versions, c.inflight)
<1>0. [c EXCEPT !.lists = lists, !.keysByModel = byModel] = e
  BY PublishedFieldsFact
<1>1. d = e
  BY <1>0 DEF Published
<1>2. IsPartial(lists, Keys, Surfaces)
  BY DEF IsCache, IsPartial
<1>3. key[1] \in Labels
  BY DEF Keys
<1>4. keys \in KeySets
  BY DEF IsCache, IsPartial, KeySets
<1>5. IsPartial(byModel, Labels, KeySets)
  BY <1>3, <1>4 DEF IsCache, IsPartial
<1>6. /\ DOMAIN lists = DOMAIN c.lists \cup {key}
      /\ \A k \in DOMAIN lists : lists[k] = IF k = key THEN surface ELSE c.lists[k]
      /\ DOMAIN byModel = DOMAIN c.keysByModel \cup {key[1]}
      /\ \A l \in DOMAIN byModel : byModel[l] = IF l = key[1] THEN keys ELSE c.keysByModel[l]
  OBVIOUS
<1>7. keys = (IF key[1] \in DOMAIN c.keysByModel THEN c.keysByModel[key[1]] ELSE {}) \cup {key}
  OBVIOUS
<1> HIDE DEF lists, byModel, keys
<1>8. IsCache(d) /\ d.lists = lists /\ d.keysByModel = byModel /\ d.token = c.token
        /\ d.versions = c.versions /\ d.inflight = c.inflight
  BY <1>1, <1>2, <1>5 DEF IsCache, Fields, e
<1> HIDE DEF e
<1>9. ASSUME Tracked(c) PROVE Tracked(d)
  <2> SUFFICES ASSUME NEW l \in Labels
               PROVE {k \in DOMAIN d.lists : k[1] = l} = IF l \in DOMAIN d.keysByModel THEN d.keysByModel[l] ELSE {}
    BY DEF Tracked
  <2>1. {k \in DOMAIN c.lists : k[1] = l} = IF l \in DOMAIN c.keysByModel THEN c.keysByModel[l] ELSE {}
    BY <1>9 DEF Tracked
  <2>2. CASE l = key[1]
    <3>1. {k \in DOMAIN lists : k[1] = l} = {k \in DOMAIN c.lists : k[1] = l} \cup {key}
      BY <2>2, <1>6
    <3>2. QED
      BY <2>1, <2>2, <3>1, <1>6, <1>7, <1>8
  <2>3. CASE l # key[1]
    <3>1. {k \in DOMAIN lists : k[1] = l} = {k \in DOMAIN c.lists : k[1] = l}
      BY <2>3, <1>6
    <3>2. QED
      BY <2>1, <2>3, <3>1, <1>6, <1>8
  <2>4. QED
    BY <2>2, <2>3
<1>10. Owned(c) => Owned(d)
  BY <1>6, <1>8 DEF Owned
<1>11. SameOwner(c, d) /\ d.versions = c.versions
  BY <1>1 DEF e, Fields, SameOwner
<1>12. Added(c, d, key, surface)
  BY <1>6, <1>8 DEF Added
<1>13. QED
  BY <1>8, <1>9, <1>10, <1>11, <1>12

\* An invalidation leaves nothing of the labels, and new versions for the builds of them.
LEMMA InvalidatedFact ==
  ASSUME NEW c, IsCache(c), NEW labels, labels \subseteq Labels, NEW id \in Ids,
         NEW d, d = Invalidated(c, labels, id)
  PROVE  /\ IsCache(d) /\ SameOwner(c, d)
         /\ Tracked(c) => Tracked(d) /\ SomeEntries(c, d, labels)
         /\ SomeVersions(c, d, id) /\ NewVersions(d, labels, id)
         /\ Owned(c) => Owned(d)
<1> DEFINE keys  == UNION {c.keysByModel[l] : l \in labels \cap DOMAIN c.keysByModel}
           built == {l \in labels : <<c.token, l>> \in DOMAIN c.inflight}
           lists == Restricted(c.lists, DOMAIN c.lists \ keys)
           byModel == Restricted(c.keysByModel, DOMAIN c.keysByModel \ labels)
           versions == [l \in (DOMAIN c.versions \ labels) \cup built |-> IF l \in built THEN id ELSE c.versions[l]]
           e == Fields(c.owner, c.token, c.ready, lists, byModel, versions, c.inflight)
<1>0. [c EXCEPT !.lists = lists, !.keysByModel = byModel, !.versions = versions] = e
  BY InvalidatedFieldsFact
<1>1. d = e
  BY <1>0 DEF Invalidated
<1>2. /\ IsPartial(lists, Keys, Surfaces) /\ IsPartial(byModel, Labels, KeySets)
      /\ DOMAIN lists = DOMAIN c.lists \ keys
      /\ \A k \in DOMAIN lists : lists[k] = c.lists[k]
      /\ DOMAIN byModel = DOMAIN c.keysByModel \ labels
      /\ \A l \in DOMAIN byModel : byModel[l] = c.keysByModel[l]
  BY DEF IsCache, IsPartial, Restricted
<1>3. IsPartial(versions, Labels, Tokens)
  BY DEF IsCache, IsPartial, Tokens
<1>4. /\ DOMAIN versions = (DOMAIN c.versions \ labels) \cup built
      /\ \A l \in DOMAIN versions : versions[l] = IF l \in built THEN id ELSE c.versions[l]
  OBVIOUS
<1>5. \A l \in built : <<c.token, l>> \in DOMAIN c.inflight /\ l \in labels
  OBVIOUS
<1>6. \A k \in keys : \E l \in labels \cap DOMAIN c.keysByModel : k \in c.keysByModel[l]
  OBVIOUS
<1>7. \A l \in labels \cap DOMAIN c.keysByModel : c.keysByModel[l] \subseteq keys
  OBVIOUS
<1> HIDE DEF keys, built, lists, byModel, versions
<1>8. IsCache(d) /\ d.lists = lists /\ d.keysByModel = byModel /\ d.versions = versions
        /\ d.token = c.token /\ d.inflight = c.inflight
  BY <1>1, <1>2, <1>3 DEF IsCache, Fields, e
<1> HIDE DEF e
<1>9. DOMAIN c.lists \subseteq Keys
  BY DEF IsCache, IsPartial
<1>10. ASSUME Tracked(c) PROVE \A k \in DOMAIN c.lists : k \in keys <=> k[1] \in labels
  <2>1. \A k \in DOMAIN c.lists : k[1] \in Labels
    BY <1>9 DEF Keys
  <2>2. ASSUME NEW k \in DOMAIN c.lists, k \in keys PROVE k[1] \in labels
    <3>1. PICK l \in labels \cap DOMAIN c.keysByModel : k \in c.keysByModel[l]
      BY <2>2, <1>6
    <3>2. k \in {j \in DOMAIN c.lists : j[1] = l}
      BY <3>1, <1>10 DEF Tracked
    <3>3. QED
      BY <3>1, <3>2
  <2>3. ASSUME NEW k \in DOMAIN c.lists, k[1] \in labels PROVE k \in keys
    <3>1. k \in {j \in DOMAIN c.lists : j[1] = k[1]}
      OBVIOUS
    <3>2. k[1] \in DOMAIN c.keysByModel /\ k \in c.keysByModel[k[1]]
      BY <3>1, <2>1, <1>10 DEF Tracked
    <3>3. QED
      BY <2>3, <3>2, <1>7
  <2>4. QED
    BY <2>2, <2>3
<1>11. ASSUME Tracked(c) PROVE Tracked(d)
  <2> SUFFICES ASSUME NEW l \in Labels
               PROVE {k \in DOMAIN d.lists : k[1] = l} = IF l \in DOMAIN d.keysByModel THEN d.keysByModel[l] ELSE {}
    BY DEF Tracked
  <2>1. {k \in DOMAIN c.lists : k[1] = l} = IF l \in DOMAIN c.keysByModel THEN c.keysByModel[l] ELSE {}
    BY <1>11 DEF Tracked
  <2>2. CASE l \in labels
    <3>1. {k \in DOMAIN lists : k[1] = l} = {}
      BY <2>2, <1>2, <1>10, <1>11
    <3>2. QED
      BY <2>2, <3>1, <1>2, <1>8
  <2>3. CASE l \notin labels
    <3>1. {k \in DOMAIN lists : k[1] = l} = {k \in DOMAIN c.lists : k[1] = l}
      BY <2>3, <1>2, <1>10, <1>11
    <3>2. QED
      BY <2>1, <2>3, <3>1, <1>2, <1>8
  <2>4. QED
    BY <2>2, <2>3
<1>12. Tracked(c) => \A k \in DOMAIN d.lists : k[1] \notin labels
  BY <1>2, <1>8, <1>10
<1>13. Owned(c) => Owned(d)
  BY <1>2, <1>4, <1>5, <1>8 DEF Owned
<1>14. SameOwner(c, d)
  BY <1>1 DEF e, Fields, SameOwner
<1>15. SomeVersions(c, d, id) /\ NewVersions(d, labels, id)
  BY <1>4, <1>5, <1>8 DEF SomeVersions, NewVersions
<1>16. Tracked(c) => SomeEntries(c, d, labels)
  BY <1>2, <1>8, <1>12 DEF SomeEntries
<1>17. QED
  BY <1>8, <1>11, <1>13, <1>14, <1>15, <1>16

\* force_owner keeps entries of the expected owner only, and none of the labels.
LEMMA ForceOwnerFact ==
  ASSUME NEW c, IsCache(c), NEW o \in SomeOwners, NEW previous, registry \in BOOLEAN,
         NEW labels, labels \subseteq Labels, NEW id \in Ids,
         NEW d, d = ForceOwner(c, o, previous, labels, id), Tracked(c)
  PROVE  /\ IsCache(d) /\ d.owner = o /\ d.token = id /\ d.ready = registry
         /\ SomeEntries(c, d, labels)
         /\ DOMAIN d.lists # {} => c.owner = previous /\ c.ready = registry
         /\ Tracked(d)
         /\ Owned(c) => Owned(d)
<1>1. CASE c.owner = previous /\ c.ready = registry
  <2> DEFINE h == Kept(c, o, registry, id)
  <2>1. d = Invalidated(h, labels, id)
    BY <1>1 DEF ForceOwner, SetOwner, Kept, Handed
  <2>2. h = Kept(c, o, registry, id)
    OBVIOUS
  <2> HIDE DEF h
  <2>3. /\ IsCache(h) /\ h.owner = o /\ h.token = id /\ h.ready = registry
        /\ SameEntries(c, h)
        /\ Tracked(h)
        /\ Owned(c) => Owned(h)
    BY <2>2, KeptFact
  <2>4. /\ IsCache(d) /\ SameOwner(h, d)
        /\ Tracked(d) /\ SomeEntries(h, d, labels)
        /\ Owned(h) => Owned(d)
    BY <2>1, <2>3, InvalidatedFact
  <2>5. QED
    BY <1>1, <2>3, <2>4 DEF SameOwner, SameEntries, SomeEntries
<1>2. CASE ~(c.owner = previous /\ c.ready = registry)
  <2> DEFINE h == Cleared(c, o, registry, id)
  <2>1. d = Invalidated(h, labels, id)
    BY <1>2 DEF ForceOwner, SetOwner, Cleared, Handed
  <2>2. h = Cleared(c, o, registry, id)
    OBVIOUS
  <2> HIDE DEF h
  <2>3. /\ IsCache(h) /\ h.owner = o /\ h.token = id /\ h.ready = registry
        /\ DOMAIN h.lists = {}
        /\ Tracked(h) /\ Owned(h)
    BY <2>2, ClearedFact
  <2>4. /\ IsCache(d) /\ SameOwner(h, d)
        /\ Tracked(d) /\ SomeEntries(h, d, labels)
        /\ Owned(d)
    BY <2>1, <2>3, InvalidatedFact
  <2>5. QED
    BY <2>3, <2>4 DEF SameOwner, SomeEntries
<1>3. QED
  BY <1>1, <1>2

-----------------------------------------------------------------------------
(* What the members are computed from.                                     *)

DataOK ==
  /\ data \in Seq([Labels -> Nat]) /\ view \in Seq(Nat) /\ Len(view) = Len(data)
  /\ registry \in BOOLEAN /\ changes \in Nat
  /\ \A s \in DOMAIN data, l \in Labels : data[s][l] <= changes

Grown ==
  /\ DataOK'
  /\ registry => registry'
  /\ DOMAIN data \subseteq DOMAIN data'
  /\ \A s \in DOMAIN data, l \in Labels : data[s][l] <= data'[s][l]
  /\ \A o \in SomeOwners : Made(o) => Made(o)' /\ (IsLive(o)' => IsLive(o))

\* Appending to a sequence.
LEMMA AppendFact ==
  ASSUME NEW S, NEW q \in Seq(S), NEW e \in S
  PROVE /\ Append(q, e) \in Seq(S) /\ Len(Append(q, e)) = Len(q) + 1
        /\ DOMAIN Append(q, e) = 1..(Len(q) + 1) /\ DOMAIN q = 1..Len(q)
        /\ \A i \in 1..Len(q) : Append(q, e)[i] = q[i]
        /\ Append(q, e)[Len(q) + 1] = e
OBVIOUS

\* A new index has the data of its predecessor but for the labels.
LEMMA ReindexedFact ==
  ASSUME DataOK, NEW p \in Owners, NEW labels \in SUBSET Labels, Made(p), Reindexed(p, labels)
  PROVE  /\ Grown
         /\ Len(data') = Len(data) + 1 /\ DOMAIN data = 1..Len(data) /\ DOMAIN data' = 1..Len(data')
         /\ \A s \in DOMAIN data : data'[s] = data[s] /\ view'[s] = view[s]
         /\ \A l \in Labels \ labels : data'[Len(data')][l] = data[p.index][l]
         /\ view'[Len(data')] = IF IsLive(p) THEN 1 ELSE 0
<1>1. changes' = changes + 1 /\ registry' = registry
  BY DEF Reindexed, Changed
<1> DEFINE new == [l \in Labels |-> IF l \in labels THEN changes' ELSE data[p.index][l]]
           v == IF IsLive(p) THEN 1 ELSE 0
<1>2. data' = Append(data, new) /\ view' = Append(view, v)
  BY DEF Reindexed
<1>3. p.index \in DOMAIN data
  BY DEF Made
<1>4. new \in [Labels -> Nat] /\ \A l \in Labels : new[l] <= changes'
  BY <1>1, <1>3 DEF DataOK
<1>5. v \in Nat
  OBVIOUS
<1>6. \A l \in Labels \ labels : new[l] = data[p.index][l]
  OBVIOUS
<1>7. v = IF IsLive(p) THEN 1 ELSE 0
  OBVIOUS
<1> HIDE DEF new, v
<1>8. /\ data' \in Seq([Labels -> Nat]) /\ Len(data') = Len(data) + 1
      /\ DOMAIN data' = 1..(Len(data) + 1) /\ DOMAIN data = 1..Len(data)
      /\ \A s \in 1..Len(data) : data'[s] = data[s]
      /\ data'[Len(data) + 1] = new
  BY <1>2, <1>4, AppendFact DEF DataOK
<1>9. /\ view' \in Seq(Nat) /\ Len(view') = Len(view) + 1
      /\ DOMAIN view' = 1..(Len(view) + 1)
      /\ \A s \in 1..Len(view) : view'[s] = view[s]
      /\ view'[Len(view) + 1] = v
  BY <1>2, <1>5, AppendFact DEF DataOK
<1>10. Len(view) = Len(data) /\ Len(data) \in Nat
  BY DEF DataOK
<1>11. DataOK'
  <2>1. \A s \in DOMAIN data', l \in Labels : data'[s][l] <= changes'
    <3> TAKE s \in DOMAIN data', l \in Labels
    <3>1. CASE s = Len(data) + 1
      BY <3>1, <1>4, <1>8
    <3>2. CASE s \in 1..Len(data)
      <4>1. data'[s] = data[s] /\ data[s][l] <= changes /\ data[s][l] \in Nat
        BY <3>2, <1>8 DEF DataOK
      <4>2. QED
        BY <4>1, <1>1 DEF DataOK
    <3>3. QED
      BY <3>1, <3>2, <1>8, <1>10
  <2>2. QED
    BY <2>1, <1>1, <1>8, <1>9, <1>10 DEF DataOK
<1>12. \A s \in DOMAIN data, l \in Labels : data[s][l] <= data'[s][l]
  BY <1>8 DEF DataOK
<1>13. \A o \in SomeOwners : Made(o) => Made(o)' /\ (IsLive(o)' => IsLive(o))
  BY <1>8, <1>9, <1>10 DEF Made, IsLive
<1>14. Grown
  BY <1>1, <1>8, <1>10, <1>11, <1>12, <1>13 DEF Grown
<1>15. QED
  BY <1>6, <1>7, <1>8, <1>9, <1>10, <1>14

\* An installed capture changes one index.
LEMMA InstalledFact ==
  ASSUME DataOK, NEW s \in DOMAIN data, NEW v \in {view[s], view[s] + 1}, Installed(s, v)
  PROVE  /\ Grown
         /\ DOMAIN data' = DOMAIN data /\ view[s] > 0 /\ view'[s] = v /\ view[s] \in Nat
         /\ \A r \in DOMAIN data \ {s} : data'[r] = data[r] /\ view'[r] = view[r]
<1>1. /\ view[s] > 0 /\ changes' = changes + 1 /\ registry' = registry
      /\ data' = [data EXCEPT ![s] = [l \in Labels |-> changes']]
      /\ view' = [view EXCEPT ![s] = v]
  BY DEF Installed, Changed
<1>2. /\ DOMAIN data = 1..Len(data) /\ DOMAIN view = DOMAIN data /\ Len(data) \in Nat
      /\ view[s] \in Nat /\ v \in Nat /\ changes' \in Nat
  BY <1>1 DEF DataOK
<1>3. [l \in Labels |-> changes'] \in [Labels -> Nat]
  BY <1>2
<1>4. /\ data' \in Seq([Labels -> Nat]) /\ Len(data') = Len(data) /\ DOMAIN data' = DOMAIN data
      /\ \A r \in DOMAIN data \ {s} : data'[r] = data[r]
      /\ data'[s] = [l \in Labels |-> changes']
  BY <1>1, <1>2, <1>3 DEF DataOK
<1>5. /\ view' \in Seq(Nat) /\ Len(view') = Len(view) /\ DOMAIN view' = DOMAIN view
      /\ \A r \in DOMAIN data \ {s} : view'[r] = view[r]
      /\ view'[s] = v
  BY <1>1, <1>2 DEF DataOK
<1>6. \A r \in DOMAIN data, l \in Labels : data[r][l] <= data'[r][l] /\ data'[r][l] <= changes'
  <2> TAKE r \in DOMAIN data, l \in Labels
  <2>1. data[r][l] \in Nat /\ data[r][l] <= changes /\ changes \in Nat
    BY <1>2 DEF DataOK
  <2>2. QED
    BY <1>1, <1>4, <2>1
<1>7. DataOK'
  BY <1>1, <1>2, <1>4, <1>5, <1>6 DEF DataOK
<1>8. \A o \in SomeOwners : Made(o) => Made(o)' /\ (IsLive(o)' => IsLive(o))
  <2> TAKE o \in SomeOwners
  <2>1. CASE o.index = s
    BY <2>1, <1>1, <1>2, <1>4, <1>5 DEF Made, IsLive, SomeOwners
  <2>2. CASE o.index # s
    BY <2>2, <1>4, <1>5 DEF Made, IsLive
  <2>3. QED
    BY <2>1, <2>2
<1>9. Grown
  BY <1>1, <1>4, <1>6, <1>7, <1>8 DEF Grown
<1>10. QED
  BY <1>1, <1>2, <1>4, <1>5, <1>9

\* A new catalogue retires the owners of its index, and changes no data.
LEMMA RecataloguedFact ==
  ASSUME DataOK, NEW s \in DOMAIN data, Recatalogued(s)
  PROVE  /\ Grown
         /\ data' = data /\ registry' = registry /\ view[s] > 0 /\ view[s] \in Nat /\ view'[s] = view[s] + 1
         /\ \A r \in DOMAIN data \ {s} : view'[r] = view[r]
<1>1. /\ view[s] > 0 /\ changes' = changes + 1 /\ registry' = registry /\ data' = data
      /\ view' = [view EXCEPT ![s] = @ + 1]
  BY DEF Recatalogued, Changed
<1>2. DOMAIN view = DOMAIN data /\ DOMAIN data = 1..Len(data) /\ Len(data) \in Nat /\ view[s] \in Nat
  BY DEF DataOK
<1>3. /\ view' \in Seq(Nat) /\ Len(view') = Len(view) /\ DOMAIN view' = DOMAIN view
      /\ \A r \in DOMAIN data \ {s} : view'[r] = view[r]
      /\ view'[s] = view[s] + 1
  BY <1>1, <1>2 DEF DataOK
<1>4. DataOK'
  BY <1>1, <1>3 DEF DataOK
<1>5. \A o \in SomeOwners : Made(o) => Made(o)' /\ (IsLive(o)' => IsLive(o))
  <2> TAKE o \in SomeOwners
  <2>1. CASE o.index = s
    BY <2>1, <1>1, <1>2, <1>3 DEF Made, IsLive, SomeOwners
  <2>2. CASE o.index # s
    BY <2>2, <1>1, <1>2, <1>3 DEF Made, IsLive
  <2>3. QED
    BY <2>1, <2>2
<1>6. QED
  BY <1>1, <1>2, <1>3, <1>4, <1>5 DEF Grown, DataOK

\* A model that changes in place changes one datum.
LEMMA TouchedFact ==
  ASSUME DataOK, NEW s \in DOMAIN data, NEW label \in Labels, Touched(s, label)
  PROVE  /\ Grown
         /\ view' = view /\ registry' = registry /\ DOMAIN data' = DOMAIN data
         /\ \A r \in DOMAIN data, l \in Labels : r # s \/ l # label => data'[r][l] = data[r][l]
<1>1. /\ changes' = changes + 1 /\ registry' = registry /\ view' = view
      /\ data' = [data EXCEPT ![s] = [data[s] EXCEPT ![label] = changes']]
  BY DEF Touched, Changed
<1>2. DOMAIN data = 1..Len(data) /\ Len(data) \in Nat /\ changes \in Nat /\ changes' \in Nat
  BY <1>1 DEF DataOK
<1>3. \A r \in DOMAIN data : data[r] \in [Labels -> Nat]
  BY <1>2 DEF DataOK
<1>4. /\ [data[s] EXCEPT ![label] = changes'] \in [Labels -> Nat]
      /\ \A l \in Labels \ {label} : [data[s] EXCEPT ![label] = changes'][l] = data[s][l]
      /\ [data[s] EXCEPT ![label] = changes'][label] = changes'
  BY <1>2, <1>3
<1>5. /\ data' \in Seq([Labels -> Nat]) /\ Len(data') = Len(data) /\ DOMAIN data' = DOMAIN data
      /\ \A r \in DOMAIN data \ {s} : data'[r] = data[r]
      /\ data'[s] = [data[s] EXCEPT ![label] = changes']
  BY <1>1, <1>2, <1>4 DEF DataOK
<1>6. \A r \in DOMAIN data, l \in Labels : data[r][l] <= data'[r][l] /\ data'[r][l] <= changes'
  <2> TAKE r \in DOMAIN data, l \in Labels
  <2>1. data[r][l] \in Nat /\ data[r][l] <= changes /\ changes \in Nat
    BY <1>2 DEF DataOK
  <2>2. CASE r = s /\ l = label
    BY <2>1, <2>2, <1>1, <1>4, <1>5
  <2>3. CASE r = s /\ l # label
    BY <2>1, <2>3, <1>1, <1>4, <1>5
  <2>4. CASE r # s
    BY <2>1, <2>4, <1>1, <1>5
  <2>5. QED
    BY <2>2, <2>3, <2>4
<1>7. DataOK'
  BY <1>1, <1>2, <1>5, <1>6 DEF DataOK
<1>8. \A o \in SomeOwners : Made(o) => Made(o)' /\ (IsLive(o)' => IsLive(o))
  BY <1>1, <1>5 DEF Made, IsLive
<1>9. \A r \in DOMAIN data, l \in Labels : r # s \/ l # label => data'[r][l] = data[r][l]
  BY <1>4, <1>5
<1>10. QED
  BY <1>1, <1>5, <1>6, <1>7, <1>8, <1>9 DEF Grown

\* The prewarm changes the registry only.
LEMMA RegistryReadyFact ==
  ASSUME DataOK, RegistryReady
  PROVE  Grown /\ data' = data /\ view' = view /\ registry'
<1>1. changes' = changes + 1 /\ registry' = TRUE /\ data' = data /\ view' = view
  BY DEF RegistryReady, Changed
<1>2. \A s \in DOMAIN data, l \in Labels : data[s][l] \in Nat /\ data[s][l] <= changes
  BY DEF DataOK
<1>3. DataOK'
  BY <1>1, <1>2 DEF DataOK
<1>4. QED
  BY <1>1, <1>2, <1>3 DEF Grown, Made, IsLive
-----------------------------------------------------------------------------
(* The invariant.                                                          *)

CallRecords ==
  [pc : {"idle", "finding", "asked", "building", "built", "answering", "failing", "retrying", "answered", "failed"},
   owner : SomeOwners, key : Keys \cup {<<>>}, token : Tokens, version : Tokens,
   surface : Surfaces, asked : BOOLEAN, since : Surfaces]

Active(r) == r.pc \notin {"idle", "answered", "failed"}

Now(r) == data[r.owner.index][r.key[1]]

\* What a call noted when it was asked is not newer than what is there now.
CallOK(r) ==
  Active(r) =>
    /\ r.key \in Keys /\ Made(r.owner)
    /\ r.asked => r.since.stamp <= Now(r) /\ (r.since.live => registry)

\* What a call computed, or found, is between the two.
SurfaceOK(r) ==
  r.pc \in {"built", "answering"} =>
    /\ r.surface.stamp <= Now(r)
    /\ r.surface.live => registry
    /\ r.asked => r.since.stamp <= r.surface.stamp /\ (r.since.live => r.surface.live)

\* The result of a build may still enter the cache.
Held(c, r) == r.pc = "built" /\ c.owner = r.owner /\ ~IsSuperseded(c, r)

\* Then it is current, if the owner is still the daemon's.
HeldOK(c, r) ==
  Held(c, r) =>
    /\ c.ready => r.surface.live
    /\ IsLive(r.owner) => r.surface.stamp = Now(r)

EntryOK(c, k) ==
  /\ c.owner # NoOwner
  /\ c.lists[k].live = c.ready
  /\ c.lists[k].stamp <= data[c.owner.index][k[1]]
  /\ IsLive(c.owner) => c.lists[k].stamp = data[c.owner.index][k[1]]

CacheOK(c) ==
  /\ c.ready => registry
  /\ c.owner = NoOwner \/ Made(c.owner)
  /\ \A k \in DOMAIN c.lists : EntryOK(c, k)

\* What is cached, or may still be, is not older than a question about it.
AskedOK(c, r) ==
  Active(r) /\ r.asked /\ c.owner = r.owner =>
    \A k \in DOMAIN c.lists : k[1] = r.key[1] => r.since.stamp <= c.lists[k].stamp

PairOK(c, r, u) ==
  Active(r) /\ r.asked /\ Held(c, u) /\ r.owner = u.owner /\ r.key[1] = u.key[1] =>
    r.since.stamp <= u.surface.stamp

CallsOK ==
  /\ \A t \in Threads :
       /\ CallOK(calls[t]) /\ SurfaceOK(calls[t])
       /\ HeldOK(cache, calls[t]) /\ AskedOK(cache, calls[t])
  /\ \A t \in Threads, u \in Threads : PairOK(cache, calls[t], calls[u])

TypeOK == DataOK /\ IsCache(cache) /\ calls \in [Threads -> CallRecords] /\ asks \in Nat

IInv == TypeOK /\ Tracked(cache) /\ Owned(cache) /\ CacheOK(cache) /\ CallsOK

\* The stamps are numbers.
LEMMA StampFact ==
  ASSUME NEW d \in Seq([Labels -> Nat])
  PROVE  \A s \in DOMAIN d, l \in Labels : d[s][l] \in Nat
OBVIOUS

\* A change that the calls under way do not see.
LEMMA EnvironmentFact ==
  ASSUME IInv, Grown, calls' = calls,
         \A t \in Threads : Held(cache', calls[t]) =>
           /\ Held(cache, calls[t]) /\ cache'.ready = cache.ready
           /\ IsLive(calls[t].owner)' => Now(calls[t])' = Now(calls[t]),
         \A t \in Threads : Active(calls[t]) /\ cache'.owner = calls[t].owner =>
           \A k \in DOMAIN cache'.lists :
             cache.owner = cache'.owner /\ k \in DOMAIN cache.lists /\ cache'.lists[k] = cache.lists[k]
  PROVE  CallsOK'
<1>1. ASSUME NEW t \in Threads
      PROVE CallOK(calls[t])' /\ SurfaceOK(calls[t])' /\ HeldOK(cache, calls[t])' /\ AskedOK(cache, calls[t])'
  <2> PICK r \in CallRecords : r = calls[t]
    BY DEF IInv, TypeOK
  <2>1. CallOK(r) /\ SurfaceOK(r) /\ HeldOK(cache, r) /\ AskedOK(cache, r)
    BY DEF IInv, CallsOK
  <2>2. Active(r) =>
          /\ Made(r.owner) /\ Made(r.owner)' /\ (IsLive(r.owner)' => IsLive(r.owner))
          /\ data[r.owner.index][r.key[1]] \in Nat /\ data'[r.owner.index][r.key[1]] \in Nat
          /\ data[r.owner.index][r.key[1]] <= data'[r.owner.index][r.key[1]]
    <3> SUFFICES ASSUME Active(r)
                 PROVE  /\ Made(r.owner) /\ Made(r.owner)' /\ (IsLive(r.owner)' => IsLive(r.owner))
                        /\ data[r.owner.index][r.key[1]] \in Nat /\ data'[r.owner.index][r.key[1]] \in Nat
                        /\ data[r.owner.index][r.key[1]] <= data'[r.owner.index][r.key[1]]
      OBVIOUS
    <3>1. r.owner \in SomeOwners /\ Made(r.owner) /\ r.key[1] \in Labels
      BY <2>1 DEF CallOK, CallRecords, Keys
    <3>2. Made(r.owner)' /\ (IsLive(r.owner)' => IsLive(r.owner))
      BY <3>1 DEF Grown
    <3>3. r.owner.index \in DOMAIN data /\ r.owner.index \in DOMAIN data'
      BY <3>1, <3>2 DEF Made
    <3>4. data[r.owner.index][r.key[1]] \in Nat /\ data'[r.owner.index][r.key[1]] \in Nat
      <4>1. data \in Seq([Labels -> Nat]) /\ data' \in Seq([Labels -> Nat])
        BY DEF Grown, IInv, TypeOK, DataOK
      <4>2. QED
        BY <4>1, <3>1, <3>3, StampFact
    <3>5. QED
      BY <3>1, <3>2, <3>3, <3>4 DEF Grown
  <2>3. CallOK(calls[t])'
    BY <2>1, <2>2 DEF CallOK, Now, CallRecords, Surfaces, Grown
  <2>4. SurfaceOK(calls[t])'
    BY <2>1, <2>2 DEF SurfaceOK, Active, Now, CallRecords, Surfaces, Grown
  <2>5. HeldOK(cache, calls[t])'
    BY <2>1, <2>2 DEF HeldOK, Held, Active, Now, IsSuperseded
  <2>6. AskedOK(cache, calls[t])'
    BY <2>1 DEF AskedOK
  <2>7. QED
    BY <2>3, <2>4, <2>5, <2>6
<1>2. ASSUME NEW t \in Threads, NEW u \in Threads
      PROVE PairOK(cache, calls[t], calls[u])'
  BY DEF IInv, CallsOK, PairOK, Held, IsSuperseded
<1>3. QED
  BY <1>1, <1>2 DEF CallsOK

\* A change that the cache need not see.
LEMMA CacheGrowsFact ==
  ASSUME IInv, Grown, cache' = cache,
         Made(cache.owner) /\ IsLive(cache.owner)' => data'[cache.owner.index] = data[cache.owner.index]
  PROVE  CacheOK(cache)'
<1>1. IsCache(cache) /\ CacheOK(cache) /\ DataOK /\ DataOK'
  BY DEF IInv, TypeOK, Grown
<1>2. PICK o \in SomeOwners : o = cache.owner
  BY <1>1 DEF IsCache
<1>3. Made(o) => Made(o)' /\ (IsLive(o)' => IsLive(o))
  BY DEF Grown
<1>4. ASSUME NEW k \in DOMAIN cache.lists PROVE EntryOK(cache, k)'
  <2>1. EntryOK(cache, k) /\ Made(o) /\ k[1] \in Labels /\ o.index \in DOMAIN data /\ o.index \in DOMAIN data'
    BY <1>1, <1>2, <1>3 DEF CacheOK, EntryOK, IsCache, IsPartial, Keys, Made
  <2>2. /\ data[o.index][k[1]] \in Nat /\ data'[o.index][k[1]] \in Nat
        /\ data[o.index][k[1]] <= data'[o.index][k[1]]
    BY <1>1, <2>1, StampFact DEF DataOK, Grown
  <2>3. cache.lists[k].stamp \in Nat
    BY <1>1 DEF IsCache, IsPartial, Surfaces
  <2>4. IsLive(cache.owner)' => IsLive(cache.owner) /\ data'[o.index] = data[o.index]
    BY <1>2, <1>3, <2>1 DEF IsLive
  <2>5. QED
    BY <1>2, <2>1, <2>2, <2>3, <2>4 DEF EntryOK
<1>5. Made(cache.owner) => Made(cache.owner)'
  BY <1>2, <1>3 DEF Made
<1>6. QED
  BY <1>1, <1>4, <1>5 DEF CacheOK, Grown

-----------------------------------------------------------------------------
(* The daemon's steps keep the invariant.                                  *)

\* Nothing that a call or the cache holds is a new identity.
LEMMA NewIdsFact ==
  ASSUME NEW id \in NewIds
  PROVE  /\ id \in Ids /\ id # cache.token
         /\ \A t \in Threads : calls[t].token # id /\ calls[t].version # id
<1> DEFINE held == {cache.token} \cup {cache.versions[l] : l \in DOMAIN cache.versions}
                     \cup {b[1] : b \in DOMAIN cache.inflight}
                     \cup {calls[t].token : t \in Threads} \cup {calls[t].version : t \in Threads}
<1>1. id \in Ids /\ id \notin held
  <2>1. NewIds = IF Ids \subseteq held THEN {} ELSE {CHOOSE i \in Ids : i \notin held}
    BY DEF NewIds
  <2> HIDE DEF held
  <2>2. QED
    BY <2>1
<1>2. QED
  BY <1>1

\* No build survives a new token.
LEMMA FreshFact ==
  ASSUME NEW id \in NewIds, NEW c, c.token = id
  PROVE  \A t \in Threads : ~Held(c, calls[t])
BY NewIdsFact DEF Held, IsSuperseded

\* A build that may enter the cache now could before.
LEMMA HeldFact ==
  ASSUME NEW c, NEW d, NEW id, NEW r, SameOwner(c, d), SomeVersions(c, d, id), r.version # id, Held(d, r)
  PROVE  Held(c, r)
BY DEF Held, IsSuperseded, SameOwner, SomeVersions

\* A reindex hands the cache over with what did not change.
LEMMA RebuildFact ==
  ASSUME IInv, Rebuild
  PROVE  IInv'
<1> USE DEF IInv, TypeOK
<1>1. PICK p \in Owners, labels \in SUBSET Labels, id \in NewIds :
        /\ Made(p)
        /\ Reindexed(p, labels)
        /\ cache' = ForceOwner(cache, Owner(Len(data'), 1), p, labels, id)
  BY DEF Rebuild
<1>2. /\ Grown
      /\ Len(data') = Len(data) + 1 /\ DOMAIN data = 1..Len(data) /\ DOMAIN data' = 1..Len(data')
      /\ \A s \in DOMAIN data : data'[s] = data[s] /\ view'[s] = view[s]
      /\ \A l \in Labels \ labels : data'[Len(data')][l] = data[p.index][l]
      /\ view'[Len(data')] = IF IsLive(p) THEN 1 ELSE 0
  BY <1>1, ReindexedFact
<1>3. Len(data) \in Nat
  BY DEF DataOK
<1>3a. Owner(Len(data'), 1) \in SomeOwners
  BY <1>2, <1>3 DEF SomeOwners, Owner
<1> PICK o \in SomeOwners : o = Owner(Len(data'), 1)
  BY <1>3a
<1>4. o \in SomeOwners /\ o.index = Len(data') /\ o.view = 1 /\ o # NoOwner
  BY <1>2, <1>3 DEF SomeOwners, Owner, NoOwner
<1>5. id \in Ids /\ registry \in BOOLEAN /\ registry' = registry
  BY <1>1, NewIdsFact DEF DataOK, Reindexed
<1>6. cache' = ForceOwner(cache, o, p, labels, id) /\ labels \subseteq Labels /\ calls' = calls /\ asks' = asks
  BY <1>1 DEF Rebuild
<1>7. /\ IsCache(cache') /\ cache'.owner = o /\ cache'.token = id /\ cache'.ready = registry
      /\ SomeEntries(cache, cache', labels)
      /\ DOMAIN cache'.lists # {} => cache.owner = p /\ cache.ready = registry
      /\ Tracked(cache')
      /\ Owned(cache')
  BY <1>4, <1>5, <1>6, ForceOwnerFact
<1>8. \A t \in Threads : ~Held(cache', calls[t])
  BY <1>1, <1>7, FreshFact
<1>9. \A t \in Threads : Active(calls[t]) => calls[t].owner # o
  BY <1>2, <1>3, <1>4 DEF CallsOK, CallOK, Made
<1>10. CallsOK'
  BY <1>2, <1>6, <1>7, <1>8, <1>9, EnvironmentFact
<1>11. CacheOK(cache)'
  <2>1. Made(o)'
    BY <1>2, <1>3, <1>4 DEF Made
  <2>2. ASSUME NEW k \in DOMAIN cache'.lists PROVE EntryOK(cache, k)'
    <3>1. /\ cache.owner = p /\ cache.ready = registry
          /\ k \in DOMAIN cache.lists /\ k[1] \notin labels /\ cache'.lists[k] = cache.lists[k]
      BY <1>7, <2>2 DEF SomeEntries
    <3>2. EntryOK(cache, k) /\ k[1] \in Labels
      BY <3>1 DEF CacheOK, IsCache, IsPartial, Keys
    <3>3. data'[o.index][k[1]] = data[p.index][k[1]]
      BY <1>2, <1>4, <3>1, <3>2
    <3>4. IsLive(o)' => IsLive(p)
      BY <1>2, <1>4 DEF IsLive
    <3>5. QED
      BY <1>4, <1>7, <3>1, <3>2, <3>3, <3>4 DEF EntryOK
  <2>3. QED
    BY <1>5, <1>7, <2>1, <2>2 DEF CacheOK
<1>12. QED
  BY <1>2, <1>6, <1>7, <1>10, <1>11 DEF Grown

\* A new catalogue hands the cache over as it is.
LEMMA RebindRuntimeFact ==
  ASSUME IInv, RebindRuntime
  PROVE  IInv'
<1> USE DEF IInv, TypeOK
<1>1. PICK s \in DOMAIN data, id \in NewIds :
        /\ Recatalogued(s)
        /\ cache' = IF cache.owner = Owner(s, view[s])
                    THEN SetOwner(cache, Owner(s, view'[s]), cache.ready # registry, registry, id)
                    ELSE cache
  BY DEF RebindRuntime
<1>2. /\ Grown
      /\ data' = data /\ registry' = registry /\ view[s] > 0 /\ view[s] \in Nat /\ view'[s] = view[s] + 1
      /\ \A r \in DOMAIN data \ {s} : view'[r] = view[r]
  BY <1>1, RecataloguedFact
<1>3. calls' = calls /\ asks' = asks /\ registry \in BOOLEAN /\ id \in Ids
  BY <1>1, NewIdsFact DEF RebindRuntime, DataOK
<1>3a. Owner(s, view'[s]) \in SomeOwners
  BY <1>2 DEF SomeOwners, Owner, DataOK
<1> PICK o \in SomeOwners : o = Owner(s, view'[s])
  BY <1>3a
<1>4. o \in SomeOwners /\ o.index = s /\ o.view = view[s] + 1 /\ o # NoOwner
  BY <1>2 DEF SomeOwners, Owner, NoOwner, DataOK
<1>5. CASE cache.owner = Owner(s, view[s])
  <2>1. cache.owner.index = s /\ cache.owner.view = view[s]
    BY <1>5 DEF Owner
  <2>2. /\ IsCache(cache') /\ cache'.owner = o /\ cache'.token = id /\ cache'.ready = registry
        /\ DOMAIN cache'.lists = {} \/ (SameEntries(cache, cache') /\ cache.ready = registry)
        /\ Tracked(cache') /\ Owned(cache')
    <3>1. CASE cache.ready # registry
      <4>1. cache' = Cleared(cache, o, registry, id)
        BY <1>1, <1>5, <3>1 DEF SetOwner, Cleared, Handed
      <4>2. QED
        BY <4>1, <1>3, <1>4, ClearedFact
    <3>2. CASE cache.ready = registry
      <4>1. cache' = Kept(cache, o, registry, id)
        BY <1>1, <1>5, <3>2 DEF SetOwner, Kept, Handed
      <4>2. QED
        BY <4>1, <3>2, <1>3, <1>4, KeptFact
    <3>3. QED
      BY <3>1, <3>2
  <2>3. \A t \in Threads : ~Held(cache', calls[t])
    BY <1>1, <2>2, FreshFact
  <2>4. \A t \in Threads : Active(calls[t]) => calls[t].owner # o
    BY <1>2, <1>4 DEF CallsOK, CallOK, Made
  <2>5. CallsOK'
    BY <1>2, <1>3, <2>2, <2>3, <2>4, EnvironmentFact
  <2>6. CacheOK(cache)'
    <3>1. Made(o)'
      BY <1>2, <1>4 DEF Made
    <3>2. ASSUME NEW k \in DOMAIN cache'.lists PROVE EntryOK(cache, k)'
      <4>1. cache'.lists = cache.lists /\ cache.ready = registry
        BY <2>2, <3>2 DEF SameEntries
      <4>2. EntryOK(cache, k)
        BY <4>1, <3>2 DEF CacheOK
      <4>3. IsLive(cache.owner)
        BY <2>1 DEF IsLive
      <4>4. QED
        BY <1>2, <1>4, <2>1, <2>2, <4>1, <4>2, <4>3 DEF EntryOK
    <3>3. QED
      BY <1>2, <2>2, <3>1, <3>2 DEF CacheOK
  <2>7. QED
    BY <1>2, <1>3, <2>2, <2>5, <2>6 DEF Grown
<1>6. CASE cache.owner # Owner(s, view[s])
  <2>1. cache' = cache
    BY <1>1, <1>6
  <2>2. \A t \in Threads : Now(calls[t])' = Now(calls[t])
    BY <1>2, <1>3 DEF Now
  <2>3. CallsOK'
    BY <1>2, <1>3, <2>1, <2>2, EnvironmentFact
  <2>4. CacheOK(cache)'
    BY <1>2, <2>1, CacheGrowsFact
  <2>5. QED
    BY <1>2, <1>3, <2>1, <2>3, <2>4 DEF Grown
<1>7. QED
  BY <1>5, <1>6

\* An installed capture empties the cache of its index.
LEMMA InstallFact ==
  ASSUME IInv, Install
  PROVE  IInv'
<1> USE DEF IInv, TypeOK
<1>1. PICK s \in DOMAIN data, id \in NewIds : \E v \in {view[s], view[s] + 1} :
        /\ Installed(s, v)
        /\ cache' = IF cache.owner \in {Owner(s, v), Owner(s, view[s])}
                    THEN SetOwner(cache, Owner(s, v), TRUE, registry, id)
                    ELSE cache
  BY DEF Install
<1>2. PICK v \in {view[s], view[s] + 1} :
        /\ Installed(s, v)
        /\ cache' = IF cache.owner \in {Owner(s, v), Owner(s, view[s])}
                    THEN SetOwner(cache, Owner(s, v), TRUE, registry, id)
                    ELSE cache
  BY <1>1
<1>3. /\ Grown
      /\ DOMAIN data' = DOMAIN data /\ view[s] > 0 /\ view'[s] = v /\ view[s] \in Nat
      /\ \A r \in DOMAIN data \ {s} : data'[r] = data[r] /\ view'[r] = view[r]
  BY <1>2, InstalledFact
<1>4. /\ calls' = calls /\ asks' = asks /\ registry \in BOOLEAN /\ registry' = registry /\ id \in Ids
      /\ s \in Nat
  BY <1>1, <1>2, NewIdsFact DEF Install, Installed, DataOK
<1> DEFINE o == Owner(s, v)
<1>5. o \in SomeOwners /\ o.index = s /\ o.view = v /\ o # NoOwner
  BY <1>3, <1>4 DEF SomeOwners, Owner, NoOwner
<1> HIDE DEF o
<1>6. CASE cache.owner \in {Owner(s, v), Owner(s, view[s])}
  <2>1. cache' = Cleared(cache, o, registry, id)
    BY <1>2, <1>6 DEF SetOwner, Cleared, Handed, o
  <2>2. /\ IsCache(cache') /\ cache'.owner = o /\ cache'.token = id /\ cache'.ready = registry
        /\ DOMAIN cache'.lists = {}
        /\ Tracked(cache') /\ Owned(cache')
    BY <2>1, <1>4, <1>5, ClearedFact
  <2>3. \A t \in Threads : ~Held(cache', calls[t])
    BY <1>1, <2>2, FreshFact
  <2>4. CallsOK'
    BY <1>3, <1>4, <2>2, <2>3, EnvironmentFact
  <2>5. CacheOK(cache)'
    BY <1>3, <1>4, <1>5, <2>2 DEF CacheOK, Made
  <2>6. QED
    BY <1>3, <1>4, <2>2, <2>4, <2>5 DEF Grown
<1>7. CASE cache.owner \notin {Owner(s, v), Owner(s, view[s])}
  <2>1. cache' = cache
    BY <1>2, <1>7
  <2>2. \A w \in SomeOwners : w = cache.owner /\ IsLive(w)' => w.index # s
    <3> SUFFICES ASSUME NEW w \in SomeOwners, w = cache.owner, IsLive(w)', w.index = s PROVE FALSE
      OBVIOUS
    <3>1. w.view = v
      BY <1>3 DEF IsLive
    <3>2. w = Owner(s, v)
      BY <3>1 DEF SomeOwners, Owner
    <3>3. QED
      BY <3>2, <1>7
  <2>3. ASSUME NEW t \in Threads, Held(cache', calls[t]), IsLive(calls[t].owner)'
        PROVE  Now(calls[t])' = Now(calls[t])
    <3> PICK r \in CallRecords : r = calls[t]
      OBVIOUS
    <3>1. r.owner \in SomeOwners /\ r.owner = cache.owner /\ IsLive(r.owner)' /\ Active(r)
      BY <1>4, <2>1, <2>3 DEF Held, CallRecords, IsLive, Active
    <3>2. r.owner.index \in DOMAIN data
      BY <3>1 DEF CallsOK, CallOK, Made
    <3>3. QED
      BY <1>3, <1>4, <2>2, <3>1, <3>2 DEF Now
  <2>4. CallsOK'
    BY <1>3, <1>4, <2>1, <2>3, EnvironmentFact
  <2>5. CacheOK(cache)'
    <3>1. cache.owner \in SomeOwners
      BY DEF IsCache
    <3>2. ASSUME Made(cache.owner), IsLive(cache.owner)' PROVE data'[cache.owner.index] = data[cache.owner.index]
      BY <1>3, <2>1, <2>2, <3>1, <3>2 DEF Made, IsLive
    <3>3. QED
      BY <1>3, <2>1, <3>2, CacheGrowsFact
  <2>6. QED
    BY <1>3, <1>4, <2>1, <2>4, <2>5 DEF Grown
<1>8. QED
  BY <1>6, <1>7

\* A changed model takes its entries and builds with it.
LEMMA InvalidateModelFact ==
  ASSUME IInv, InvalidateModel
  PROVE  IInv'
<1> USE DEF IInv, TypeOK
<1>1. PICK l \in Labels, id \in NewIds :
        Touched(cache.owner.index, l) /\ cache' = Invalidated(cache, {l}, id)
  BY DEF InvalidateModel
<1> DEFINE s == cache.owner.index
<1>2. cache.owner # NoOwner /\ Made(cache.owner) /\ s \in DOMAIN data /\ cache.owner \in SomeOwners
  BY DEF InvalidateModel, CacheOK, Made, IsCache
<1>3. /\ Grown
      /\ view' = view /\ registry' = registry /\ DOMAIN data' = DOMAIN data
      /\ \A r \in DOMAIN data, m \in Labels : r # s \/ m # l => data'[r][m] = data[r][m]
  BY <1>1, <1>2, TouchedFact
<1>4. calls' = calls /\ asks' = asks /\ id \in Ids /\ {l} \subseteq Labels
  BY <1>1, NewIdsFact DEF InvalidateModel
<1>5. /\ IsCache(cache') /\ SameOwner(cache, cache')
      /\ Tracked(cache') /\ SomeEntries(cache, cache', {l})
      /\ SomeVersions(cache, cache', id) /\ NewVersions(cache', {l}, id)
      /\ Owned(cache')
  BY <1>1, <1>4, InvalidatedFact
<1>6. ASSUME NEW t \in Threads, Held(cache', calls[t])
      PROVE  /\ Held(cache, calls[t]) /\ cache'.ready = cache.ready
             /\ Now(calls[t])' = Now(calls[t])
  <2>1. calls[t].version # id
    BY <1>1, NewIdsFact
  <2>2. Held(cache, calls[t]) /\ cache'.ready = cache.ready
    BY <1>5, <1>6, <2>1, HeldFact DEF SameOwner
  <2>3. calls[t].key[1] # l
    BY <1>5, <1>6, <2>1 DEF Held, IsSuperseded, NewVersions
  <2>4. calls[t].owner.index \in DOMAIN data /\ calls[t].key[1] \in Labels
    <3>1. Active(calls[t])
      BY <1>6 DEF Held, Active
    <3>2. QED
      BY <3>1 DEF CallsOK, CallOK, Made, Keys
  <2>5. QED
    BY <1>3, <1>4, <2>2, <2>3, <2>4 DEF Now
<1>7. CallsOK'
  BY <1>3, <1>4, <1>5, <1>6, EnvironmentFact DEF SameOwner, SomeEntries
<1>8. CacheOK(cache)'
  <2>1. ASSUME NEW k \in DOMAIN cache'.lists PROVE EntryOK(cache, k)'
    <3>1. k \in DOMAIN cache.lists /\ k[1] # l /\ cache'.lists[k] = cache.lists[k] /\ k[1] \in Labels
      BY <1>5, <2>1 DEF SomeEntries, IsCache, IsPartial, Keys
    <3>2. EntryOK(cache, k)
      BY <3>1 DEF CacheOK
    <3>3. data'[s][k[1]] = data[s][k[1]]
      BY <1>2, <1>3, <3>1
    <3>4. QED
      BY <1>3, <1>5, <3>1, <3>2, <3>3 DEF EntryOK, SameOwner, IsLive
  <2>2. Made(cache.owner)'
    BY <1>2, <1>3, <1>5 DEF Made, SameOwner
  <2>3. QED
    BY <1>3, <1>5, <2>1, <2>2 DEF CacheOK, SameOwner
<1>9. QED
  BY <1>3, <1>4, <1>5, <1>7, <1>8 DEF Grown

\* The prewarm retires nothing until the next check.
LEMMA PrewarmFact ==
  ASSUME IInv, Prewarm
  PROVE  IInv'
<1> USE DEF IInv, TypeOK
<1>1. Grown /\ data' = data /\ view' = view /\ registry' /\ cache' = cache /\ calls' = calls /\ asks' = asks
  BY RegistryReadyFact DEF Prewarm
<1>2. \A t \in Threads : Now(calls[t])' = Now(calls[t])
  BY <1>1 DEF Now
<1>3. CallsOK'
  BY <1>1, <1>2, EnvironmentFact
<1>4. CacheOK(cache)'
  BY <1>1, CacheGrowsFact
<1>5. QED
  BY <1>1, <1>3, <1>4 DEF Grown

-----------------------------------------------------------------------------
(* The steps of the threads keep the invariant.                            *)

\* What a step of one thread has to show.
LEMMA StepFact ==
  ASSUME IInv, UNCHANGED dataVars, asks' \in Nat,
         NEW t \in Threads, NEW r \in CallRecords, calls' = [calls EXCEPT ![t] = r],
         IsCache(cache'), Tracked(cache'), Owned(cache'), CacheOK(cache'),
         CallOK(r), SurfaceOK(r), HeldOK(cache', r), AskedOK(cache', r), PairOK(cache', r, r),
         \A u \in Threads \ {t} :
           /\ Held(cache', calls[u]) => Held(cache, calls[u]) /\ cache'.ready = cache.ready
           /\ AskedOK(cache', calls[u])
           /\ PairOK(cache', r, calls[u]) /\ PairOK(cache', calls[u], r)
  PROVE  IInv'
<1>1. data' = data /\ view' = view /\ registry' = registry /\ changes' = changes
  BY DEF dataVars
<1>2. DataOK /\ DataOK'
  BY <1>1 DEF IInv, TypeOK, DataOK
<1>3. calls \in [Threads -> CallRecords] /\ calls' \in [Threads -> CallRecords]
  BY DEF IInv, TypeOK
<1>4. calls'[t] = r /\ \A u \in Threads \ {t} : calls'[u] = calls[u]
  BY <1>3
<1>5. CacheOK(cache)'
  BY <1>1 DEF CacheOK, EntryOK, Made, IsLive
<1>6. \A u \in Threads : calls[u] \in CallRecords /\ CallOK(calls[u]) /\ SurfaceOK(calls[u]) /\ HeldOK(cache, calls[u])
  BY <1>3 DEF IInv, CallsOK
<1>7. ASSUME NEW u \in Threads
      PROVE  CallOK(calls'[u]) /\ SurfaceOK(calls'[u]) /\ HeldOK(cache', calls'[u]) /\ AskedOK(cache', calls'[u])
  <2>1. CASE u = t
    BY <2>1, <1>4
  <2>2. CASE u # t
    <3>1. HeldOK(cache', calls[u])
      BY <2>2, <1>6 DEF HeldOK
    <3>2. QED
      BY <2>2, <3>1, <1>4, <1>6
  <2>3. QED
    BY <2>1, <2>2
<1>8. ASSUME NEW u \in Threads, NEW w \in Threads
      PROVE  PairOK(cache', calls'[u], calls'[w])
  <2>1. CASE u = t \/ w = t
    BY <2>1, <1>4
  <2>2. CASE u # t /\ w # t
    <3>1. PairOK(cache, calls[u], calls[w])
      BY DEF IInv, CallsOK
    <3>2. PairOK(cache', calls[u], calls[w])
      BY <2>2, <3>1 DEF PairOK
    <3>3. QED
      BY <2>2, <3>2, <1>4
  <2>3. QED
    BY <2>1, <2>2
<1>9. CallsOK'
  <2>1. ASSUME NEW u \in Threads
        PROVE  CallOK(calls[u])' /\ SurfaceOK(calls[u])' /\ HeldOK(cache, calls[u])' /\ AskedOK(cache, calls[u])'
    <3>1. CallOK(calls[u])'
      BY <1>1, <1>7 DEF CallOK, Made, Now, Active
    <3>2. SurfaceOK(calls[u])'
      BY <1>1, <1>7 DEF SurfaceOK, Now
    <3>3. HeldOK(cache, calls[u])'
      BY <1>1, <1>7 DEF HeldOK, Held, IsSuperseded, IsLive, Now
    <3>4. AskedOK(cache, calls[u])'
      BY <1>7 DEF AskedOK, Active
    <3>5. QED
      BY <3>1, <3>2, <3>3, <3>4
  <2>2. ASSUME NEW u \in Threads, NEW w \in Threads
        PROVE  PairOK(cache, calls[u], calls[w])'
    BY <1>8 DEF PairOK, Active, Held, IsSuperseded
  <2>3. QED
    BY <2>1, <2>2 DEF CallsOK
<1>10. QED
  BY <1>2, <1>3, <1>5, <1>9 DEF IInv, TypeOK

\* The invariant, for one call.
LEMMA OneCallFact ==
  ASSUME IInv, NEW t \in Threads
  PROVE  /\ calls[t] \in CallRecords
         /\ CallOK(calls[t]) /\ SurfaceOK(calls[t]) /\ HeldOK(cache, calls[t]) /\ AskedOK(cache, calls[t])
         /\ \A u \in Threads : PairOK(cache, calls[t], calls[u]) /\ PairOK(cache, calls[u], calls[t])
BY DEF IInv, TypeOK, CallsOK

\* What a call under way holds.
LEMMA ActiveFact ==
  ASSUME IInv, NEW r \in CallRecords, Active(r), CallOK(r)
  PROVE  /\ r.key \in Keys /\ r.key[1] \in Labels /\ Made(r.owner)
         /\ r.owner \in SomeOwners /\ r.owner # NoOwner
         /\ Now(r) \in Nat
         /\ r.token \in Tokens /\ r.version \in Tokens /\ r.surface \in Surfaces /\ r.since \in Surfaces
<1>1. r.key \in Keys /\ Made(r.owner) /\ r.owner \in SomeOwners
  BY DEF CallOK, CallRecords
<1>2. r.key[1] \in Labels
  BY <1>1 DEF Keys
<1>3. r.owner.index \in DOMAIN data
  BY <1>1 DEF Made
<1>4. data \in Seq([Labels -> Nat])
  BY DEF IInv, TypeOK, DataOK
<1>5. Now(r) \in Nat
  BY <1>2, <1>3, <1>4, StampFact DEF Now
<1>6. r.owner # NoOwner
  BY <1>3, <1>4 DEF NoOwner, Owner
<1>7. QED
  BY <1>1, <1>2, <1>5, <1>6 DEF CallRecords

\* A new question is not newer than what is cached for it.
LEMMA AskFact ==
  ASSUME IInv, NEW t \in Threads, Ask(t)
  PROVE  IInv'
<1>1. PICK o \in Owners, key \in Keys, pc \in {"finding", "asked"} :
        /\ Made(o)
        /\ calls' = [calls EXCEPT ![t] = Call(pc, o, key, IsLive(o), Members(o, key[1]))]
  BY DEF Ask
<1>2. o \in SomeOwners /\ o.index \in DOMAIN data /\ key[1] \in Labels
  BY <1>1 DEF Owners, Owner, SomeOwners, Made, Keys, IInv, TypeOK, DataOK
<1>3. data[o.index][key[1]] \in Nat /\ registry \in BOOLEAN
  <2>1. data \in Seq([Labels -> Nat]) /\ registry \in BOOLEAN
    BY DEF IInv, TypeOK, DataOK
  <2>2. QED
    BY <2>1, <1>2, StampFact
<1>4. PICK since \in Surfaces : since = Members(o, key[1])
  BY <1>3 DEF Members, Surfaces
<1>4a. since.stamp = data[o.index][key[1]] /\ since.live = registry
  BY <1>4 DEF Members
<1>5. PICK asked \in BOOLEAN : asked = IsLive(o)
  BY DEF IsLive
<1>6. PICK r : r = Call(pc, o, key, asked, since)
  OBVIOUS
<1>7. r \in CallRecords
  BY <1>2, <1>4, <1>5, <1>6 DEF Call, CallRecords, Tokens, NoMembers, Surfaces
<1>8. calls' = [calls EXCEPT ![t] = r]
  <2>1. r = Call(pc, o, key, IsLive(o), Members(o, key[1]))
    BY <1>4, <1>5, <1>6, Zenon
  <2>2. QED
    BY <1>1, <2>1, Zenon
<1>9. cache' = cache /\ UNCHANGED dataVars /\ asks' \in Nat
  BY DEF Ask, IInv, TypeOK
<1>10. r.owner = o /\ r.key = key /\ (r.asked <=> IsLive(o)) /\ r.since = since /\ r.pc = pc /\ Now(r) = since.stamp
  BY <1>4a, <1>5, <1>6 DEF Call, Now
<1>11. ~Held(cache', r)
  BY <1>10 DEF Held
<1>12. CallOK(r) /\ SurfaceOK(r) /\ HeldOK(cache', r) /\ PairOK(cache', r, r)
  BY <1>1, <1>3, <1>4a, <1>10, <1>11 DEF CallOK, SurfaceOK, HeldOK, PairOK
<1>13. IsCache(cache) /\ Tracked(cache) /\ Owned(cache) /\ CacheOK(cache)
  BY DEF IInv, TypeOK
<1>14. AskedOK(cache', r)
  <2> SUFFICES ASSUME r.asked, cache.owner = o, NEW k \in DOMAIN cache.lists, k[1] = key[1]
               PROVE  since.stamp <= cache.lists[k].stamp
    BY <1>9, <1>10 DEF AskedOK
  <2>1. EntryOK(cache, k)
    BY <1>13 DEF CacheOK
  <2>2. cache.lists[k].stamp = data[o.index][key[1]]
    BY <2>1, <1>10 DEF EntryOK
  <2>3. QED
    BY <2>2, <1>3, <1>4a
<1>15. ASSUME NEW u \in Threads
       PROVE  AskedOK(cache', calls[u]) /\ PairOK(cache', r, calls[u]) /\ PairOK(cache', calls[u], r)
  <2>1. AskedOK(cache', calls[u]) /\ HeldOK(cache, calls[u])
    BY <1>9, OneCallFact
  <2>2. PairOK(cache', calls[u], r)
    BY <1>11 DEF PairOK
  <2>3. PairOK(cache', r, calls[u])
    <3> SUFFICES ASSUME r.asked, Held(cache, calls[u]), o = calls[u].owner, key[1] = calls[u].key[1]
                 PROVE  since.stamp <= calls[u].surface.stamp
      BY <1>9, <1>10 DEF PairOK
    <3>1. calls[u].surface.stamp = since.stamp
      BY <2>1, <1>4a, <1>10 DEF HeldOK, Now
    <3>2. QED
      BY <3>1, <1>3, <1>4a
  <2>4. QED
    BY <2>1, <2>2, <2>3
<1>16. QED
  BY <1>7, <1>8, <1>9, <1>12, <1>13, <1>14, <1>15, StepFact

\* The cache is checked for the owner of a call.
LEMMA CheckedFact ==
  ASSUME IInv, NEW t \in Threads, NEW r \in CallRecords, r = calls[t], Active(r), NEW id \in NewIds,
         NEW c, c = CheckOwner(cache, r.owner, id)
  PROVE  /\ IsCache(c) /\ Tracked(c) /\ Owned(c) /\ CacheOK(c)
         /\ c.owner = r.owner /\ c.ready = registry
         /\ c = cache \/ (c.token = id /\ DOMAIN c.lists = {})
         /\ \A u \in Threads :
              /\ Held(c, calls[u]) => Held(cache, calls[u]) /\ c.ready = cache.ready
              /\ AskedOK(c, calls[u])
<1>1. CallOK(r) /\ \A u \in Threads : AskedOK(cache, calls[u])
  BY OneCallFact
<1>2. Made(r.owner) /\ r.owner \in SomeOwners
  BY <1>1, ActiveFact
<1>3. id \in Ids /\ registry \in BOOLEAN /\ IsCache(cache) /\ Tracked(cache) /\ Owned(cache) /\ CacheOK(cache)
  BY NewIdsFact DEF IInv, TypeOK, DataOK
<1>4. /\ IsCache(c) /\ c.owner = r.owner /\ c.ready = registry
      /\ c = cache \/ (c.token = id /\ DOMAIN c.lists = {})
      /\ Tracked(c) /\ Owned(c)
  BY <1>2, <1>3, CheckOwnerFact
<1>5. CASE c = cache
  BY <1>1, <1>3, <1>4, <1>5
<1>6. CASE c.token = id /\ DOMAIN c.lists = {}
  <2>1. \A u \in Threads : ~Held(c, calls[u])
    BY <1>6, FreshFact
  <2>2. \A u \in Threads : AskedOK(c, calls[u])
    BY <1>6 DEF AskedOK
  <2>3. CacheOK(c)
    BY <1>2, <1>4, <1>6 DEF CacheOK
  <2>4. QED
    BY <1>4, <1>6, <2>1, <2>2, <2>3
<1>7. QED
  BY <1>4, <1>5, <1>6

\* A call ends; the cache was only checked.
LEMMA EndFact ==
  ASSUME IInv, UNCHANGED dataVars, asks' = asks, NEW t \in Threads, NEW r \in CallRecords, ~Active(r),
         calls' = [calls EXCEPT ![t] = r],
         IsCache(cache'), Tracked(cache'), Owned(cache'), CacheOK(cache'),
         \A u \in Threads :
           /\ Held(cache', calls[u]) => Held(cache, calls[u]) /\ cache'.ready = cache.ready
           /\ AskedOK(cache', calls[u])
  PROVE  IInv'
<1>1. asks' \in Nat
  BY DEF IInv, TypeOK
<1>2. ~Held(cache', r)
  BY DEF Held, Active
<1>3. /\ CallOK(r) /\ SurfaceOK(r) /\ HeldOK(cache', r) /\ AskedOK(cache', r)
      /\ \A u : PairOK(cache', r, u) /\ PairOK(cache', u, r)
  BY <1>2 DEF CallOK, SurfaceOK, HeldOK, AskedOK, PairOK, Active
<1>4. QED
  BY <1>1, <1>3, StepFact

\* A call goes on, its result not in the cache yet.
LEMMA GoOnFact ==
  ASSUME IInv, UNCHANGED dataVars, asks' = asks,
         NEW t \in Threads, NEW q \in CallRecords, q = calls[t], Active(q),
         NEW r \in CallRecords, Active(r), r.pc # "built",
         r.owner = q.owner, r.key = q.key, r.asked = q.asked, r.since = q.since,
         SurfaceOK(r),
         calls' = [calls EXCEPT ![t] = r],
         IsCache(cache'), Tracked(cache'), Owned(cache'), CacheOK(cache'),
         \A u \in Threads :
           /\ Held(cache', calls[u]) => Held(cache, calls[u]) /\ cache'.ready = cache.ready
           /\ AskedOK(cache', calls[u])
  PROVE  IInv'
<1>1. asks' \in Nat
  BY DEF IInv, TypeOK
<1>2. ~Held(cache', r)
  BY DEF Held
<1>3. HeldOK(cache', r) /\ \A u : PairOK(cache', u, r)
  BY <1>2 DEF HeldOK, PairOK
<1>4. CallOK(q) /\ AskedOK(cache', q) /\ \A u \in Threads : PairOK(cache, q, calls[u])
  BY OneCallFact
<1>5. CallOK(r)
  BY <1>4 DEF CallOK, Now
<1>6. AskedOK(cache', r)
  BY <1>4 DEF AskedOK
<1>7. \A u \in Threads : PairOK(cache', r, calls[u])
  BY <1>4 DEF PairOK
<1>8. QED
  BY <1>1, <1>3, <1>5, <1>6, <1>7, StepFact

\* A call that is over holds nothing.
LEMMA EndedFact ==
  ASSUME NEW surface \in Surfaces, NEW pc \in {"answered", "failed"}, NEW r, r = Ended(pc, surface)
  PROVE  r \in CallRecords /\ ~Active(r)
<1>1. NoOwner \in SomeOwners /\ NoMembers \in Surfaces /\ NoId \in Tokens
  BY DEF NoOwner, Owner, SomeOwners, NoMembers, Surfaces, Tokens
<1>2. r = [pc |-> pc, owner |-> NoOwner, key |-> <<>>, token |-> NoId, version |-> NoId,
           surface |-> surface, asked |-> FALSE, since |-> NoMembers]
  BY DEF Ended, NoCall, Call
<1>3. r \in CallRecords
  BY <1>1, <1>2 DEF CallRecords
<1>4. r.pc = pc
  BY <1>2
<1>5. QED
  BY <1>3, <1>4 DEF Active

\* A call notes the identities of its build.
LEMMA CallFieldsFact ==
  ASSUME calls \in [Threads -> CallRecords], NEW t \in Threads, NEW token, NEW version,
         calls' = [calls EXCEPT ![t].pc = "building", ![t].token = token, ![t].version = version]
  PROVE  calls' = [calls EXCEPT ![t] = [calls[t] EXCEPT !.pc = "building", !.token = token, !.version = version]]
OBVIOUS

\* A call notes its result.
LEMMA SurfaceFieldsFact ==
  ASSUME calls \in [Threads -> CallRecords], NEW t \in Threads, NEW surface, NEW pc,
         calls' = [calls EXCEPT ![t].pc = pc, ![t].surface = surface]
  PROVE  calls' = [calls EXCEPT ![t] = [calls[t] EXCEPT !.pc = pc, !.surface = surface]]
OBVIOUS

\* find answers what is cached, or asks on.
LEMMA FindFact ==
  ASSUME IInv, NEW t \in Threads, Find(t)
  PROVE  IInv'
<1>1. PICK q \in CallRecords : q = calls[t]
  BY OneCallFact
<1>2. q.pc = "finding" /\ Active(q) /\ CallOK(q) /\ UNCHANGED dataVars /\ asks' = asks
  BY <1>1, OneCallFact DEF Find, Active
<1>3. PICK id \in NewIds : cache' = CheckOwner(cache, q.owner, id)
  BY <1>1 DEF Find
<1>4. /\ IsCache(cache') /\ Tracked(cache') /\ Owned(cache') /\ CacheOK(cache')
      /\ \A u \in Threads :
           /\ Held(cache', calls[u]) => Held(cache, calls[u]) /\ cache'.ready = cache.ready
           /\ AskedOK(cache', calls[u])
  BY <1>1, <1>2, <1>3, CheckedFact
<1>5. CASE q.key \in DOMAIN cache'.lists
  <2>1. cache'.lists[q.key] \in Surfaces
    BY <1>4, <1>5 DEF IsCache, IsPartial
  <2>2. PICK r : r = Ended("answered", cache'.lists[q.key])
    OBVIOUS
  <2>3. r \in CallRecords /\ ~Active(r)
    BY <2>1, <2>2, EndedFact
  <2>4. calls' = [calls EXCEPT ![t] = r]
    BY <1>1, <1>5, <2>2 DEF Find, Answered
  <2>5. QED
    BY <1>2, <1>4, <2>3, <2>4, EndFact
<1>6. CASE q.key \notin DOMAIN cache'.lists
  <2>1. PICK r : r = [q EXCEPT !.pc = "asked"]
    OBVIOUS
  <2>2. /\ r \in CallRecords /\ r.pc = "asked"
        /\ r.owner = q.owner /\ r.key = q.key /\ r.asked = q.asked /\ r.since = q.since
    BY <2>1 DEF CallRecords
  <2>3. calls' = [calls EXCEPT ![t] = r]
    BY <1>1, <1>6, <2>1 DEF Find
  <2>4. Active(r) /\ SurfaceOK(r) /\ r.pc # "built"
    BY <2>2 DEF Active, SurfaceOK
  <2>5. QED
    BY <1>1, <1>2, <1>4, <2>2, <2>3, <2>4, GoOnFact
<1>7. QED
  BY <1>5, <1>6

\* get_list answers what is cached, or starts a build.
LEMMA LookFact ==
  ASSUME IInv, NEW t \in Threads, Look(t)
  PROVE  IInv'
<1>1. PICK q \in CallRecords : q = calls[t]
  BY OneCallFact
<1>2. q.pc = "asked" /\ Active(q) /\ CallOK(q) /\ UNCHANGED dataVars /\ asks' = asks
  BY <1>1, OneCallFact DEF Look, Active
<1>3. q.key \in Keys /\ q.key[1] \in Labels
  BY <1>2, ActiveFact
<1>4. PICK id \in NewIds :
        LET c == CheckOwner(cache, q.owner, id)
            m == Missed(c, q.key[1], id)
        IN IF q.key \in DOMAIN c.lists
           THEN cache' = c /\ Answered(t, c.lists[q.key])
           ELSE /\ cache' = m
                /\ calls' = [calls EXCEPT ![t].pc = "building", ![t].token = m.token,
                                          ![t].version = m.versions[q.key[1]]]
  BY <1>1 DEF Look
<1>5. PICK c : c = CheckOwner(cache, q.owner, id)
  OBVIOUS
<1>6. /\ IsCache(c) /\ Tracked(c) /\ Owned(c) /\ CacheOK(c)
      /\ \A u \in Threads :
           /\ Held(c, calls[u]) => Held(cache, calls[u]) /\ c.ready = cache.ready
           /\ AskedOK(c, calls[u])
  BY <1>1, <1>2, <1>5, CheckedFact
<1>7. CASE q.key \in DOMAIN c.lists
  <2>1. c.lists[q.key] \in Surfaces
    BY <1>6, <1>7 DEF IsCache, IsPartial
  <2>2. PICK r : r = Ended("answered", c.lists[q.key])
    OBVIOUS
  <2>3. r \in CallRecords /\ ~Active(r)
    BY <2>1, <2>2, EndedFact
  <2>4. cache' = c /\ calls' = [calls EXCEPT ![t] = r]
    BY <1>4, <1>5, <1>7, <2>2 DEF Answered
  <2>5. QED
    BY <1>2, <1>6, <2>3, <2>4, EndFact
<1>8. CASE q.key \notin DOMAIN c.lists
  <2>1. PICK m : m = Missed(c, q.key[1], id)
    OBVIOUS
  <2>2. /\ cache' = m
        /\ calls' = [calls EXCEPT ![t].pc = "building", ![t].token = m.token,
                                  ![t].version = m.versions[q.key[1]]]
    BY <1>4, <1>5, <1>8, <2>1
  <2>3. id \in Ids /\ \A u \in Threads : calls[u].version # id
    BY NewIdsFact
  <2>4. /\ IsCache(m) /\ SameOwner(c, m) /\ SameEntries(c, m) /\ SomeVersions(c, m, id)
        /\ q.key[1] \in DOMAIN m.versions
        /\ Tracked(m) /\ Owned(m)
    BY <1>3, <1>6, <2>1, <2>3, MissedFact
  <2>5. m.token \in Tokens /\ m.versions[q.key[1]] \in Tokens
    BY <2>4 DEF IsCache, IsPartial
  <2>6. PICK r : r = [q EXCEPT !.pc = "building", !.token = m.token, !.version = m.versions[q.key[1]]]
    OBVIOUS
  <2>7. /\ r \in CallRecords /\ r.pc = "building"
        /\ r.owner = q.owner /\ r.key = q.key /\ r.asked = q.asked /\ r.since = q.since
    BY <2>5, <2>6 DEF CallRecords
  <2>8. calls' = [calls EXCEPT ![t] = r]
    <3>1. calls \in [Threads -> CallRecords]
      BY DEF IInv, TypeOK
    <3>2. QED
      BY <1>1, <2>2, <2>6, <3>1, CallFieldsFact
  <2>9. Active(r) /\ SurfaceOK(r) /\ r.pc # "built"
    BY <2>7 DEF Active, SurfaceOK
  <2>10. CacheOK(m)
    BY <1>6, <2>4 DEF CacheOK, EntryOK, SameOwner, SameEntries
  <2>11. ASSUME NEW u \in Threads
         PROVE  /\ Held(m, calls[u]) => Held(cache, calls[u]) /\ m.ready = cache.ready
                /\ AskedOK(m, calls[u])
    <3>1. Held(m, calls[u]) => Held(c, calls[u])
      BY <2>3, <2>4, HeldFact
    <3>2. AskedOK(m, calls[u])
      BY <1>6, <2>4 DEF AskedOK, SameOwner, SameEntries
    <3>3. QED
      BY <1>6, <2>4, <3>1, <3>2 DEF SameOwner
  <2>12. QED
    BY <1>1, <1>2, <2>2, <2>4, <2>7, <2>8, <2>9, <2>10, <2>11, GoOnFact
<1>9. QED
  BY <1>7, <1>8

\* A result is current when it was computed.
LEMMA BuildFact ==
  ASSUME IInv, NEW t \in Threads, Build(t)
  PROVE  IInv'
<1>1. PICK q \in CallRecords : q = calls[t]
  BY OneCallFact
<1>2. /\ q.pc = "building" /\ Active(q) /\ CallOK(q)
      /\ UNCHANGED dataVars /\ asks' = asks /\ cache' = cache /\ asks' \in Nat
  BY <1>1, OneCallFact DEF Build, Active, IInv, TypeOK
<1>3. /\ IsCache(cache) /\ Tracked(cache) /\ Owned(cache) /\ CacheOK(cache)
      /\ \A u \in Threads : AskedOK(cache, calls[u]) /\ CallOK(calls[u]) /\ PairOK(cache, q, calls[u])
                            /\ calls[u] \in CallRecords
  BY <1>1, OneCallFact DEF IInv, TypeOK
<1>4. CASE calls' = [calls EXCEPT ![t].pc = "failing"]
  <2>1. PICK r : r = [q EXCEPT !.pc = "failing"]
    OBVIOUS
  <2>2. /\ r \in CallRecords /\ r.pc = "failing"
        /\ r.owner = q.owner /\ r.key = q.key /\ r.asked = q.asked /\ r.since = q.since
    BY <2>1 DEF CallRecords
  <2>3. calls' = [calls EXCEPT ![t] = r]
    BY <1>1, <1>4, <2>1
  <2>4. Active(r) /\ SurfaceOK(r) /\ r.pc # "built"
    BY <2>2 DEF Active, SurfaceOK
  <2>5. QED
    BY <1>1, <1>2, <1>3, <2>2, <2>3, <2>4, GoOnFact
<1>5. CASE calls' = [calls EXCEPT ![t].pc = "built", ![t].surface = Members(calls[t].owner, calls[t].key[1])]
  <2>0. Now(q) \in Nat /\ registry \in BOOLEAN
    BY <1>2, ActiveFact DEF IInv, TypeOK, DataOK
  <2>1. PICK surface \in Surfaces : surface = Members(calls[t].owner, calls[t].key[1])
    BY <1>1, <2>0 DEF Members, Surfaces, Now
  <2>2. surface.stamp = Now(q) /\ surface.live = registry
    BY <1>1, <2>1 DEF Members, Now
  <2>3. PICK r : r = [q EXCEPT !.pc = "built", !.surface = surface]
    OBVIOUS
  <2>4. /\ r \in CallRecords /\ r.pc = "built" /\ r.surface = surface
        /\ r.owner = q.owner /\ r.key = q.key /\ r.asked = q.asked /\ r.since = q.since
        /\ Now(r) = Now(q)
    BY <2>3 DEF CallRecords, Now
  <2>5. calls' = [calls EXCEPT ![t] = r]
    <3>1. calls \in [Threads -> CallRecords]
      BY DEF IInv, TypeOK
    <3>2. QED
      BY <1>1, <1>5, <2>1, <2>3, <3>1, SurfaceFieldsFact
  <2>6. Active(r) /\ CallOK(r)
    BY <1>2, <2>4 DEF Active, CallOK
  <2>7. SurfaceOK(r)
    BY <2>0, <2>2, <2>4, <2>6 DEF SurfaceOK, CallOK
  <2>8. HeldOK(cache', r)
    BY <1>2, <1>3, <2>2, <2>4 DEF HeldOK, CacheOK
  <2>9. AskedOK(cache', r)
    BY <1>1, <1>2, <1>3, <2>4, <2>6 DEF AskedOK
  <2>10. PairOK(cache', r, r)
    BY <2>4, <2>6, <2>7 DEF PairOK, SurfaceOK
  <2>11. ASSUME NEW u \in Threads PROVE PairOK(cache', calls[u], r)
    <3> SUFFICES ASSUME Active(calls[u]), calls[u].asked, calls[u].owner = r.owner, calls[u].key[1] = r.key[1]
                 PROVE  calls[u].since.stamp <= r.surface.stamp
      BY DEF PairOK
    <3>1. calls[u].since.stamp <= Now(calls[u])
      BY <1>3 DEF CallOK
    <3>2. Now(calls[u]) = Now(r)
      BY DEF Now
    <3>3. QED
      BY <2>2, <2>4, <3>1, <3>2
  <2>12. \A u \in Threads : PairOK(cache', r, calls[u])
    BY <1>2, <1>3, <2>4, <2>6 DEF PairOK
  <2>13. QED
    BY <1>2, <1>3, <2>4, <2>5, <2>6, <2>7, <2>8, <2>9, <2>10, <2>11, <2>12, StepFact
<1>6. QED
  BY <1>4, <1>5 DEF Build

\* A result is published when no change came since its computation: the cache
\* was not handed over, and the model was not invalidated.
LEMMA SettleFact ==
  ASSUME IInv, NEW t \in Threads, Settle(t)
  PROVE  IInv'
<1>1. PICK q \in CallRecords : q = calls[t]
  BY OneCallFact
<1>2. /\ q.pc = "built" /\ Active(q) /\ CallOK(q) /\ SurfaceOK(q) /\ HeldOK(cache, q)
      /\ UNCHANGED dataVars /\ asks' = asks /\ asks' \in Nat
  BY <1>1, OneCallFact DEF Settle, Active, IInv, TypeOK
<1>3. /\ q.key \in Keys /\ q.key[1] \in Labels /\ q.surface \in Surfaces /\ Now(q) \in Nat /\ q.since \in Surfaces
      /\ q.owner # NoOwner
  BY <1>2, ActiveFact
<1>4. PICK id \in NewIds :
        LET c == CheckOwner(cache, q.owner, id)
        IN IF cache.owner # q.owner
           THEN cache' = cache /\ calls' = [calls EXCEPT ![t].pc = "answering"]
           ELSE IF q.key \in DOMAIN c.lists
           THEN cache' = c /\ calls' = [calls EXCEPT ![t].pc = "answering", ![t].surface = c.lists[q.key]]
           ELSE IF IsSuperseded(c, q)
           THEN cache' = c /\ calls' = [calls EXCEPT ![t].pc = "retrying", ![t].surface = NoMembers]
           ELSE /\ cache' = Published(c, q.key, q.surface)
                /\ calls' = [calls EXCEPT ![t].pc = "answering"]
  BY <1>1 DEF Settle
<1>5. PICK c : c = CheckOwner(cache, q.owner, id)
  OBVIOUS
<1>6. /\ IsCache(c) /\ Tracked(c) /\ Owned(c) /\ CacheOK(c)
      /\ c.owner = q.owner /\ c.ready = registry
      /\ c = cache \/ (c.token = id /\ DOMAIN c.lists = {})
      /\ \A u \in Threads :
           /\ Held(c, calls[u]) => Held(cache, calls[u]) /\ c.ready = cache.ready
           /\ AskedOK(c, calls[u])
  <2>1. Active(q) /\ q = calls[t] /\ c = CheckOwner(cache, q.owner, id)
    BY <1>1, <1>2, <1>5
  <2>2. QED
    BY <2>1, CheckedFact
<1>7. IsCache(cache) /\ Tracked(cache) /\ Owned(cache) /\ CacheOK(cache) /\ \A u \in Threads : AskedOK(cache, calls[u])
  BY OneCallFact DEF IInv, TypeOK
<1>8. calls \in [Threads -> CallRecords] /\ NoMembers \in Surfaces
  BY DEF IInv, TypeOK, NoMembers, Surfaces
<1>9. PICK a : a = [q EXCEPT !.pc = "answering"]
  OBVIOUS
<1>10. /\ a \in CallRecords /\ a.pc = "answering" /\ a.surface = q.surface
       /\ a.owner = q.owner /\ a.key = q.key /\ a.asked = q.asked /\ a.since = q.since
       /\ Active(a) /\ a.pc # "built" /\ SurfaceOK(a)
  BY <1>2, <1>9 DEF CallRecords, Active, SurfaceOK, Now
<1>11. CASE cache.owner # q.owner
  <2>1. cache' = cache /\ calls' = [calls EXCEPT ![t] = a]
    BY <1>1, <1>4, <1>9, <1>11
  <2>2. QED
    BY <1>1, <1>2, <1>7, <1>10, <2>1, GoOnFact
<1>12. CASE cache.owner = q.owner /\ q.key \in DOMAIN c.lists
  <2>1. cache' = c /\ calls' = [calls EXCEPT ![t].pc = "answering", ![t].surface = c.lists[q.key]]
    BY <1>4, <1>5, <1>12
  <2>2. PICK surface \in Surfaces : surface = c.lists[q.key]
    BY <1>6, <1>12 DEF IsCache, IsPartial
  <2>3. PICK r : r = [q EXCEPT !.pc = "answering", !.surface = surface]
    OBVIOUS
  <2>4. /\ r \in CallRecords /\ r.pc = "answering" /\ r.surface = surface
        /\ r.owner = q.owner /\ r.key = q.key /\ r.asked = q.asked /\ r.since = q.since
    BY <2>3 DEF CallRecords
  <2>5. calls' = [calls EXCEPT ![t] = r]
    BY <1>1, <1>8, <2>1, <2>2, <2>3, SurfaceFieldsFact
  <2>6. EntryOK(c, q.key) /\ AskedOK(c, q)
    BY <1>1, <1>6, <1>12 DEF CacheOK
  <2>7. SurfaceOK(r)
    BY <1>2, <1>6, <1>12, <2>2, <2>4, <2>6 DEF SurfaceOK, EntryOK, AskedOK, CallOK, Now
  <2>8. Active(r) /\ r.pc # "built"
    BY <2>4 DEF Active
  <2>9. QED
    BY <1>1, <1>2, <1>6, <2>1, <2>4, <2>5, <2>7, <2>8, GoOnFact
<1>13. CASE cache.owner = q.owner /\ q.key \notin DOMAIN c.lists /\ IsSuperseded(c, q)
  <2>1. cache' = c /\ calls' = [calls EXCEPT ![t].pc = "retrying", ![t].surface = NoMembers]
    BY <1>4, <1>5, <1>13
  <2>2. PICK r : r = [q EXCEPT !.pc = "retrying", !.surface = NoMembers]
    OBVIOUS
  <2>3. /\ r \in CallRecords /\ r.pc = "retrying"
        /\ r.owner = q.owner /\ r.key = q.key /\ r.asked = q.asked /\ r.since = q.since
    BY <1>8, <2>2 DEF CallRecords
  <2>4. calls' = [calls EXCEPT ![t] = r]
    BY <1>1, <1>8, <2>1, <2>2, SurfaceFieldsFact
  <2>5. Active(r) /\ r.pc # "built" /\ SurfaceOK(r)
    BY <2>3 DEF Active, SurfaceOK
  <2>6. QED
    BY <1>1, <1>2, <1>6, <2>1, <2>3, <2>4, <2>5, GoOnFact
<1>14. CASE cache.owner = q.owner /\ q.key \notin DOMAIN c.lists /\ ~IsSuperseded(c, q)
  <2>1. cache' = Published(c, q.key, q.surface) /\ calls' = [calls EXCEPT ![t] = a]
    BY <1>1, <1>4, <1>5, <1>9, <1>14
  <2>2. q.token # id
    BY <1>1, NewIdsFact
  <2>3. c = cache
    BY <1>6, <1>14, <2>2 DEF IsSuperseded
  <2>4. Held(cache, q)
    BY <1>2, <1>14, <2>3 DEF Held
  <2>5. PICK d : d = Published(cache, q.key, q.surface)
    OBVIOUS
  <2>6. /\ IsCache(d) /\ SameOwner(cache, d) /\ d.versions = cache.versions
        /\ Added(cache, d, q.key, q.surface)
        /\ Tracked(d) /\ Owned(d)
    BY <1>3, <1>7, <2>5, PublishedFact
  <2>7. cache' = d
    BY <2>1, <2>3, <2>5
  <2>8. CacheOK(d)
    <3>1. ASSUME NEW k \in DOMAIN d.lists PROVE EntryOK(d, k)
      <4>1. CASE k = q.key
        <5>1. d.lists[k] = q.surface /\ d.owner = q.owner /\ d.ready = registry
          BY <1>6, <2>3, <2>6, <4>1 DEF Added, SameOwner
        <5>2. (registry => q.surface.live) /\ (q.surface.live => registry)
          BY <1>2, <1>6, <2>3, <2>4 DEF HeldOK, SurfaceOK
        <5>3. q.surface.stamp <= Now(q) /\ (IsLive(q.owner) => q.surface.stamp = Now(q))
          BY <1>2, <2>4 DEF HeldOK, SurfaceOK
        <5>4. q.surface.live \in BOOLEAN /\ registry \in BOOLEAN
          BY <1>3 DEF Surfaces, IInv, TypeOK, DataOK
        <5>5. q.surface.live = registry
          BY <5>2, <5>4
        <5>6. QED
          BY <1>3, <4>1, <5>1, <5>3, <5>5 DEF EntryOK, Now
      <4>2. CASE k # q.key
        <5>1. k \in DOMAIN cache.lists /\ d.lists[k] = cache.lists[k]
          BY <2>6, <4>2 DEF Added
        <5>2. EntryOK(cache, k)
          BY <1>7, <5>1 DEF CacheOK
        <5>3. QED
          BY <2>6, <5>1, <5>2 DEF EntryOK, SameOwner
      <4>3. QED
        BY <4>1, <4>2
    <3>2. QED
      BY <1>7, <2>6, <3>1 DEF CacheOK, SameOwner
  <2>9. ASSUME NEW u \in Threads
        PROVE  /\ Held(d, calls[u]) => Held(cache, calls[u]) /\ d.ready = cache.ready
               /\ AskedOK(d, calls[u])
    <3>1. Held(d, calls[u]) => Held(cache, calls[u]) /\ d.ready = cache.ready
      BY <2>6 DEF Held, IsSuperseded, SameOwner
    <3>2. PairOK(cache, calls[u], q)
      BY <1>1, OneCallFact
    <3>3. ASSUME Active(calls[u]), calls[u].asked, d.owner = calls[u].owner,
                 NEW k \in DOMAIN d.lists, k[1] = calls[u].key[1]
          PROVE  calls[u].since.stamp <= d.lists[k].stamp
      <4>1. CASE k = q.key
        BY <1>14, <2>4, <2>6, <3>2, <3>3, <4>1 DEF PairOK, Added, SameOwner
      <4>2. CASE k # q.key
        BY <1>7, <2>6, <3>3, <4>2 DEF AskedOK, Added, SameOwner
      <4>3. QED
        BY <4>1, <4>2
    <3>4. QED
      BY <3>1, <3>3 DEF AskedOK
  <2>10. QED
    BY <1>1, <1>2, <1>10, <2>1, <2>6, <2>7, <2>8, <2>9, GoOnFact
<1>15. QED
  BY <1>11, <1>12, <1>13, <1>14

\* The end of a build takes nothing from the cache.
LEMMA FinishStepFact ==
  ASSUME IInv, NEW t \in Threads, Finish(t)
  PROVE  IInv'
<1>1. PICK q \in CallRecords : q = calls[t]
  BY OneCallFact
<1>2. /\ q.pc \in {"answering", "failing", "retrying"} /\ Active(q) /\ CallOK(q)
      /\ UNCHANGED dataVars /\ asks' = asks
  BY <1>1, OneCallFact DEF Finish, Active
<1>3. q.key[1] \in Labels /\ q.token \in Tokens /\ q.surface \in Surfaces
  BY <1>2, ActiveFact
<1>4. cache' = FinishBuild(cache, q.token, q.key[1])
  BY <1>1 DEF Finish
<1>5. /\ IsCache(cache) /\ Tracked(cache) /\ Owned(cache) /\ CacheOK(cache)
      /\ calls \in [Threads -> CallRecords] /\ NoMembers \in Surfaces /\ NoId \in Tokens
  BY DEF IInv, TypeOK, NoMembers, Surfaces, Tokens
<1>6. /\ IsCache(cache') /\ SameOwner(cache, cache') /\ SameEntries(cache, cache') /\ OldVersions(cache, cache')
      /\ Tracked(cache') /\ Owned(cache')
  BY <1>3, <1>4, <1>5, FinishFact
<1>7. CacheOK(cache')
  BY <1>5, <1>6 DEF CacheOK, EntryOK, SameOwner, SameEntries
<1>8. ASSUME NEW u \in Threads
      PROVE  /\ Held(cache', calls[u]) => Held(cache, calls[u]) /\ cache'.ready = cache.ready
             /\ AskedOK(cache', calls[u])
  <2>1. AskedOK(cache, calls[u])
    BY OneCallFact
  <2>2. QED
    BY <1>6, <2>1 DEF Held, IsSuperseded, AskedOK, SameOwner, SameEntries, OldVersions
<1>9. CASE q.pc = "answering"
  <2>1. PICK r : r = Ended("answered", q.surface)
    OBVIOUS
  <2>2. r \in CallRecords /\ ~Active(r)
    BY <1>3, <2>1, EndedFact
  <2>3. calls' = [calls EXCEPT ![t] = r]
    BY <1>1, <1>5, <1>9, <2>1 DEF Finish
  <2>4. QED
    BY <1>2, <1>6, <1>7, <1>8, <2>2, <2>3, EndFact
<1>10. CASE q.pc = "failing"
  <2>1. PICK r : r = Ended("failed", NoMembers)
    OBVIOUS
  <2>2. r \in CallRecords /\ ~Active(r)
    BY <1>5, <2>1, EndedFact
  <2>3. calls' = [calls EXCEPT ![t] = r]
    BY <1>1, <1>5, <1>10, <2>1 DEF Finish
  <2>4. QED
    BY <1>2, <1>6, <1>7, <1>8, <2>2, <2>3, EndFact
<1>11. CASE q.pc = "retrying"
  <2>1. PICK r : r = [q EXCEPT !.pc = "asked", !.token = NoId, !.version = NoId]
    OBVIOUS
  <2>2. /\ r \in CallRecords /\ r.pc = "asked"
        /\ r.owner = q.owner /\ r.key = q.key /\ r.asked = q.asked /\ r.since = q.since
    BY <1>5, <2>1 DEF CallRecords
  <2>3. calls' = [calls EXCEPT ![t] = r]
    BY <1>1, <1>5, <1>11, <2>1 DEF Finish
  <2>4. Active(r) /\ SurfaceOK(r) /\ r.pc # "built"
    BY <2>2 DEF Active, SurfaceOK
  <2>5. QED
    BY <1>1, <1>2, <1>6, <1>7, <1>8, <2>2, <2>3, <2>4, GoOnFact
<1>12. QED
  BY <1>2, <1>9, <1>10, <1>11

-----------------------------------------------------------------------------
(* The theorems.                                                           *)

\* The cache starts empty.
LEMMA InitFact ==
  ASSUME Init
  PROVE  IInv
<1>1. DataOK
  <2>1. [l \in Labels |-> 0] \in [Labels -> Nat]
    OBVIOUS
  <2>2. data = <<[l \in Labels |-> 0]>> /\ view = <<1>> /\ registry = FALSE /\ changes = 0
    BY DEF Init, InitData
  <2>3. data \in Seq([Labels -> Nat]) /\ Len(data) = 1 /\ view \in Seq(Nat) /\ Len(view) = 1
    BY <2>1, <2>2
  <2>4. \A s \in DOMAIN data, l \in Labels : data[s][l] = 0
    <3>1. PICK none \in [Labels -> Nat] : none = [l \in Labels |-> 0]
      BY <2>1
    <3>2. DOMAIN data = {1} /\ data[1] = none
      BY <2>2, <3>1
    <3>3. QED
      BY <3>1, <3>2
  <2>5. registry \in BOOLEAN /\ changes \in Nat
    BY <2>2
  <2>6. QED
    BY <2>2, <2>3, <2>4, <2>5 DEF DataOK
<1>2. DOMAIN Nothing = {} /\ \A S, T : IsPartial(Nothing, S, T)
  BY DEF IsPartial, Nothing
<1>3. PICK no \in BOOLEAN : no = FALSE
  OBVIOUS
<1>4. cache = Fields(NoOwner, NoId, FALSE, Nothing, Nothing, Nothing, Nothing)
  BY DEF Init, Fields
<1>5. cache = Fields(NoOwner, NoId, no, Nothing, Nothing, Nothing, Nothing)
  BY <1>3, <1>4, Zenon
<1>6. /\ cache.owner = NoOwner /\ cache.token = NoId /\ cache.ready = no
      /\ cache.lists = Nothing /\ cache.keysByModel = Nothing /\ cache.versions = Nothing /\ cache.inflight = Nothing
  BY <1>5 DEF Fields
<1>7. NoOwner \in SomeOwners /\ NoId \in Tokens
  BY DEF NoOwner, Owner, SomeOwners, Tokens
<1>8. IsCache(cache)
  BY <1>2, <1>5, <1>6, <1>7 DEF IsCache
<1>9. Tracked(cache) /\ Owned(cache) /\ CacheOK(cache)
  BY <1>2, <1>3, <1>6 DEF Tracked, Owned, CacheOK
<1>10. PICK call : call = NoCall
  OBVIOUS
<1>11. call \in CallRecords /\ ~Active(call)
  <2>1. NoMembers \in Surfaces
    BY DEF NoMembers, Surfaces
  <2>2. call = [pc |-> "idle", owner |-> NoOwner, key |-> <<>>, token |-> NoId, version |-> NoId,
                surface |-> NoMembers, asked |-> FALSE, since |-> NoMembers]
    BY <1>10 DEF NoCall, Call
  <2>3. call \in CallRecords
    BY <1>7, <2>1, <2>2 DEF CallRecords
  <2>4. call.pc = "idle"
    BY <2>2
  <2>5. QED
    BY <2>3, <2>4 DEF Active
<1>12. calls \in [Threads -> CallRecords] /\ asks \in Nat /\ \A t \in Threads : calls[t] = call
  BY <1>10, <1>11 DEF Init
<1>13. CallsOK
  BY <1>11, <1>12 DEF CallsOK, CallOK, SurfaceOK, HeldOK, AskedOK, PairOK, Held, Active
<1>14. QED
  BY <1>1, <1>8, <1>9, <1>12, <1>13 DEF IInv, TypeOK

\* A stutter keeps the invariant.
LEMMA StutterFact ==
  ASSUME IInv, UNCHANGED vars
  PROVE  IInv'
<1>1. data' = data /\ view' = view /\ registry' = registry /\ changes' = changes /\ cache' = cache
      /\ calls' = calls /\ asks' = asks
  BY DEF vars
<1>2. DataOK' /\ CacheOK(cache)'
  BY <1>1 DEF IInv, TypeOK, DataOK, CacheOK, EntryOK, Made, IsLive
<1>3. CallsOK'
  BY <1>1 DEF IInv, CallsOK, CallOK, SurfaceOK, HeldOK, AskedOK, PairOK, Held, Active, Now, Made, IsLive, IsSuperseded
<1>4. QED
  BY <1>1, <1>2, <1>3 DEF IInv, TypeOK

\* Each step keeps the invariant.
LEMMA NextFact ==
  ASSUME IInv, [Next]_vars
  PROVE  IInv'
<1>1. ASSUME NEW t \in Threads, Ask(t) PROVE IInv'
  BY <1>1, AskFact
<1>2. ASSUME NEW t \in Threads, Step(t) PROVE IInv'
  BY <1>2, FindFact, LookFact, BuildFact, SettleFact, FinishStepFact DEF Step
<1>3. CASE Rebuild \/ RebindRuntime \/ Install \/ InvalidateModel \/ Prewarm
  BY <1>3, RebuildFact, RebindRuntimeFact, InstallFact, InvalidateModelFact, PrewarmFact
<1>4. CASE UNCHANGED vars
  BY <1>4, StutterFact
<1>5. QED
  BY <1>1, <1>2, <1>3, <1>4 DEF Next

\* The inductive invariant: what is cached, or may still be published, is current
\* for the owner of the cache, and not older than a question about it.
THEOREM InvariantHolds == Spec => []IInv
<1>1. Init => IInv
  BY InitFact
<1>2. IInv /\ [Next]_vars => IInv'
  BY NextFact
<1>3. QED
  BY <1>1, <1>2, PTL DEF Spec

\* The state has its types.
THEOREM TypeCorrect == Spec => []TypeOK
<1>1. IInv => TypeOK
  BY DEF IInv
<1>2. QED
  BY <1>1, InvariantHolds, PTL

\* invalidate_model finds every entry of a model, and no other: _set_owner,
\* publications and invalidations keep lists and keysByModel together.
THEOREM ListsAreTracked == Spec => []KeysAreTracked
<1>1. IInv => KeysAreTracked
  BY DEF IInv, Tracked, KeysAreTracked
<1>2. QED
  BY <1>1, InvariantHolds, PTL

\* No entry of the cache is older than its owner: whatever get_list, force_owner,
\* install_runtime_members and the threads do, in any order.
THEOREM NoStaleEntry == Spec => []CachedIsCurrent
<1>1. IInv => CachedIsCurrent
  <2> SUFFICES ASSUME IInv, IsLive(cache.owner), NEW k \in DOMAIN cache.lists
               PROVE  cache.lists[k] = [stamp |-> data[cache.owner.index][k[1]], live |-> cache.ready]
    BY DEF CachedIsCurrent
  <2>1. EntryOK(cache, k) /\ cache.lists[k] \in Surfaces
    BY DEF IInv, TypeOK, CacheOK, IsCache, IsPartial
  <2>2. QED
    BY <2>1 DEF EntryOK, Surfaces
<1>2. QED
  BY <1>1, InvariantHolds, PTL

\* _clean_model_version leaves no version behind.
THEOREM VersionsHaveOwners == Spec => []VersionsAreOwned
<1>1. IInv => VersionsAreOwned
  BY DEF IInv, Owned, VersionsAreOwned
<1>2. QED
  BY <1>1, InvariantHolds, PTL

-----------------------------------------------------------------------------
(* The refinement.                                                         *)

Requests == [t \in Threads |-> Request(calls[t])]

\* One call of the cache is one request.
LEMMA RequestFact ==
  ASSUME NEW t \in Threads, NEW r, calls \in [Threads -> CallRecords], calls' = [calls EXCEPT ![t] = r]
  PROVE  Requests' = [Requests EXCEPT ![t] = Request(r)]
<1>1. \A u \in Threads : calls'[u] = IF u = t THEN r ELSE calls[u]
  OBVIOUS
<1>2. Requests' = [u \in Threads |-> Request(calls'[u])]
  BY DEF Requests, Request
<1>3. \A u \in Threads : Request(calls'[u]) = IF u = t THEN Request(r) ELSE Request(calls[u])
  BY <1>1
<1>4. QED
  BY <1>2, <1>3 DEF Requests

\* A step inside a call is not seen.
LEMMA HiddenFact ==
  ASSUME NEW t \in Threads, calls \in [Threads -> CallRecords],
         NEW q, q = calls[t], Active(q), NEW r, Active(r),
         r.owner = q.owner, r.key = q.key, r.asked = q.asked, r.since = q.since,
         calls' = [calls EXCEPT ![t] = r]
  PROVE  Requests' = Requests
<1>1. Request(r) = Request(q)
  BY DEF Request, Active
<1>2. Requests' = [Requests EXCEPT ![t] = Request(r)]
  BY RequestFact
<1>3. Requests[t] = Request(q)
  BY DEF Requests
<1>4. QED
  BY <1>1, <1>2, <1>3 DEF Requests

\* An answer between the question and now is one that MemberAnswers allows.
LEMMA AnsweredFact ==
  ASSUME IInv, UNCHANGED dataVars,
         NEW t \in Threads, NEW q \in CallRecords, q = calls[t], Active(q),
         NEW surface \in Surfaces, surface.stamp <= Now(q), surface.live => registry,
         q.asked => q.since.stamp <= surface.stamp /\ (q.since.live => surface.live),
         calls' = [calls EXCEPT ![t] = Ended("answered", surface)]
  PROVE  Answers!Answer(t)
<1>1. CallOK(q) /\ q.key \in Keys /\ q.key[1] \in Labels /\ Made(q.owner) /\ Now(q) \in Nat
  BY OneCallFact, ActiveFact
<1>2. calls \in [Threads -> CallRecords] /\ DataOK
  BY DEF IInv, TypeOK
<1>3. Requests' = [Requests EXCEPT ![t] = Request(Ended("answered", surface))]
  BY <1>2, RequestFact
<1>4. Request(Ended("answered", surface)) = Answers!Over("answered", surface)
  BY DEF Request, Ended, NoCall, Call, NoOwner, Owner, Answers!Over, Answers!Request, Answers!Owner,
         Answers!NoAnswer, NoMembers
<1>5. surface.stamp \in 0..changes /\ surface.live \in BOOLEAN
        /\ surface = [stamp |-> surface.stamp, live |-> surface.live]
  <2>1. Now(q) <= changes
    BY <1>1, <1>2 DEF DataOK, Made, Now
  <2>2. QED
    BY <1>1, <1>2, <2>1 DEF Surfaces, DataOK
<1>6. q.key # <<>>
  BY <1>1 DEF Keys
<1>7. PICK a : a = Requests[t]
  OBVIOUS
<1>8. /\ a.state = "asked" /\ a.live = q.asked /\ a.since = q.since /\ a.owner = q.owner /\ a.label = q.key[1]
  BY <1>6, <1>7 DEF Requests, Request, Active
<1>9. q.asked => Answers!Between(q.since, surface, Answers!Members(q.owner, q.key[1]))
  BY DEF Answers!Between, Answers!Members, Now
<1>10. QED
  BY <1>3, <1>4, <1>5, <1>7, <1>8, <1>9 DEF Answers!Answer, Answers!dataVars, dataVars, Requests

\* A computation that raised is a request that failed.
LEMMA FailedFact ==
  ASSUME IInv, UNCHANGED dataVars, NEW t \in Threads, Active(calls[t]),
         calls' = [calls EXCEPT ![t] = Ended("failed", NoMembers)]
  PROVE  Answers!Fail(t)
<1>1. calls \in [Threads -> CallRecords]
  BY DEF IInv, TypeOK
<1>2. Requests' = [Requests EXCEPT ![t] = Request(Ended("failed", NoMembers))]
  BY <1>1, RequestFact
<1>3. Request(Ended("failed", NoMembers)) = Answers!Over("failed", Answers!NoAnswer)
  BY DEF Request, Ended, NoCall, Call, NoOwner, Owner, Answers!Over, Answers!Request, Answers!Owner,
         Answers!NoAnswer, NoMembers
<1>4. Requests[t].state = "asked"
  BY DEF Requests, Request, Active
<1>5. QED
  BY <1>2, <1>3, <1>4 DEF Answers!Fail, Answers!dataVars, dataVars, Requests

\* A call of find or get_list is a question.
LEMMA AskedFact ==
  ASSUME IInv, NEW t \in Threads, Ask(t)
  PROVE  Answers!Ask(t)
<1>1. PICK o \in Owners, key \in Keys, pc \in {"finding", "asked"} :
        /\ Made(o)
        /\ calls' = [calls EXCEPT ![t] = Call(pc, o, key, IsLive(o), Members(o, key[1]))]
  BY DEF Ask
<1>2. calls \in [Threads -> CallRecords] /\ key[1] \in Labels /\ key # <<>>
  <2>1. key[1] \in Labels /\ key # <<>>
    BY DEF Keys
  <2>2. QED
    BY <2>1 DEF IInv, TypeOK
<1>3. PICK r : r = Call(pc, o, key, IsLive(o), Members(o, key[1]))
  OBVIOUS
<1>4. calls' = [calls EXCEPT ![t] = r]
  BY <1>1, <1>3, Zenon
<1>5. Requests' = [Requests EXCEPT ![t] = Request(r)]
  BY <1>2, <1>4, RequestFact
<1>6. Request(r) = Answers!Request("asked", o, key[1], Answers!IsLive(o), Answers!Members(o, key[1]), Answers!NoAnswer)
  BY <1>2, <1>3 DEF Request, Call, Answers!Request, Answers!IsLive, IsLive, Answers!Members, Members,
                    Answers!NoAnswer, NoMembers
<1>7. o \in Answers!Owners /\ Answers!Made(o)
  BY <1>1 DEF Owners, Answers!Owners, Owner, Answers!Owner, Made, Answers!Made
<1>8. Requests[t].state # "asked"
  BY DEF Requests, Request, Ask
<1>9. Requests' = [Requests EXCEPT ![t] =
        Answers!Request("asked", o, key[1], Answers!IsLive(o), Answers!Members(o, key[1]), Answers!NoAnswer)]
  BY <1>5, <1>6, Zenon
<1>10. UNCHANGED Answers!dataVars
  BY DEF Ask, dataVars, Answers!dataVars
<1>11. QED
  BY <1>2, <1>7, <1>8, <1>9, <1>10, Zenon DEF Answers!Ask, Requests

\* A step of a thread is an answer, a failure, or not seen.
LEMMA StepRefines ==
  ASSUME IInv, NEW t \in Threads, Step(t)
  PROVE  Answers!Answer(t) \/ Answers!Fail(t) \/ (UNCHANGED Answers!dataVars /\ Requests' = Requests)
<1>1. PICK q \in CallRecords : q = calls[t]
  BY OneCallFact
<1>2. /\ Active(q) /\ CallOK(q) /\ SurfaceOK(q) /\ UNCHANGED dataVars
      /\ calls \in [Threads -> CallRecords] /\ registry \in BOOLEAN
  BY <1>1, OneCallFact DEF Step, Find, Look, Build, Settle, Finish, Active, IInv, TypeOK, DataOK
<1>3. UNCHANGED Answers!dataVars
  BY <1>2 DEF dataVars, Answers!dataVars
<1>4. ASSUME NEW id \in NewIds, NEW c, c = CheckOwner(cache, q.owner, id), q.key \in DOMAIN c.lists,
             calls' = [calls EXCEPT ![t] = Ended("answered", c.lists[q.key])]
      PROVE  Answers!Answer(t)
  <2>1. /\ IsCache(c) /\ CacheOK(c) /\ c.owner = q.owner /\ c.ready = registry /\ AskedOK(c, q)
    BY <1>1, <1>2, <1>4, CheckedFact
  <2>2. EntryOK(c, q.key) /\ c.lists[q.key] \in Surfaces
    BY <1>4, <2>1 DEF CacheOK, IsCache, IsPartial
  <2>3. PICK surface \in Surfaces : surface = c.lists[q.key]
    BY <2>2
  <2>4. /\ surface.stamp <= Now(q) /\ (surface.live => registry)
        /\ q.asked => q.since.stamp <= surface.stamp /\ (q.since.live => surface.live)
    BY <1>2, <1>4, <2>1, <2>2, <2>3 DEF EntryOK, AskedOK, CallOK, Now
  <2>5. QED
    BY <1>1, <1>2, <1>4, <2>3, <2>4, AnsweredFact
<1>5. CASE Find(t)
  <2>1. PICK id \in NewIds : cache' = CheckOwner(cache, q.owner, id)
    BY <1>1, <1>5 DEF Find
  <2>2. CASE q.key \in DOMAIN cache'.lists
    BY <1>1, <1>4, <1>5, <2>1, <2>2 DEF Find, Answered
  <2>3. CASE q.key \notin DOMAIN cache'.lists
    <3>1. PICK r : r = [q EXCEPT !.pc = "asked"]
      OBVIOUS
    <3>2. calls' = [calls EXCEPT ![t] = r]
      BY <1>1, <1>5, <2>3, <3>1 DEF Find
    <3>3. Active(r) /\ r.owner = q.owner /\ r.key = q.key /\ r.asked = q.asked /\ r.since = q.since
      BY <3>1 DEF Active, CallRecords
    <3>4. QED
      BY <1>1, <1>2, <1>3, <3>2, <3>3, HiddenFact
  <2>4. QED
    BY <2>2, <2>3
<1>6. CASE Look(t)
  <2>1. PICK id \in NewIds :
          LET c == CheckOwner(cache, q.owner, id)
              m == Missed(c, q.key[1], id)
          IN IF q.key \in DOMAIN c.lists
             THEN cache' = c /\ Answered(t, c.lists[q.key])
             ELSE /\ cache' = m
                  /\ calls' = [calls EXCEPT ![t].pc = "building", ![t].token = m.token,
                                            ![t].version = m.versions[q.key[1]]]
    BY <1>1, <1>6 DEF Look
  <2>2. PICK c : c = CheckOwner(cache, q.owner, id)
    OBVIOUS
  <2>3. CASE q.key \in DOMAIN c.lists
    <3>1. calls' = [calls EXCEPT ![t] = Ended("answered", c.lists[q.key])]
      BY <2>1, <2>2, <2>3 DEF Answered
    <3>2. QED
      BY <1>4, <2>2, <2>3, <3>1
  <2>4. CASE q.key \notin DOMAIN c.lists
    <3>1. PICK m : m = Missed(c, q.key[1], id)
      OBVIOUS
    <3>2. calls' = [calls EXCEPT ![t].pc = "building", ![t].token = m.token, ![t].version = m.versions[q.key[1]]]
      BY <2>1, <2>2, <2>4, <3>1
    <3>3. PICK r : r = [q EXCEPT !.pc = "building", !.token = m.token, !.version = m.versions[q.key[1]]]
      OBVIOUS
    <3>4. calls' = [calls EXCEPT ![t] = r]
      BY <1>1, <1>2, <3>2, <3>3, CallFieldsFact
    <3>5. Active(r) /\ r.owner = q.owner /\ r.key = q.key /\ r.asked = q.asked /\ r.since = q.since
      BY <3>3 DEF Active, CallRecords
    <3>6. QED
      BY <1>1, <1>2, <1>3, <3>4, <3>5, HiddenFact
  <2>5. QED
    BY <2>3, <2>4
<1>7. CASE Build(t) \/ Settle(t)
  <2>1. PICK r : /\ calls' = [calls EXCEPT ![t] = r]
                 /\ Active(r) /\ r.owner = q.owner /\ r.key = q.key /\ r.asked = q.asked /\ r.since = q.since
    <3>1. ASSUME NEW pc \in {"failing", "answering"}, calls' = [calls EXCEPT ![t].pc = pc]
          PROVE  \E r : /\ calls' = [calls EXCEPT ![t] = r]
                        /\ Active(r) /\ r.owner = q.owner /\ r.key = q.key /\ r.asked = q.asked /\ r.since = q.since
      <4>1. PICK r : r = [q EXCEPT !.pc = pc]
        OBVIOUS
      <4>2. calls' = [calls EXCEPT ![t] = r]
        BY <1>1, <3>1, <4>1
      <4>3. Active(r) /\ r.owner = q.owner /\ r.key = q.key /\ r.asked = q.asked /\ r.since = q.since
        BY <4>1 DEF Active, CallRecords
      <4>4. QED
        BY <4>2, <4>3
    <3>2. ASSUME NEW pc \in {"built", "answering", "retrying"}, NEW surface,
                 calls' = [calls EXCEPT ![t].pc = pc, ![t].surface = surface]
          PROVE  \E r : /\ calls' = [calls EXCEPT ![t] = r]
                        /\ Active(r) /\ r.owner = q.owner /\ r.key = q.key /\ r.asked = q.asked /\ r.since = q.since
      <4>1. PICK r : r = [q EXCEPT !.pc = pc, !.surface = surface]
        OBVIOUS
      <4>2. calls' = [calls EXCEPT ![t] = r]
        BY <1>1, <1>2, <3>2, <4>1, SurfaceFieldsFact
      <4>3. Active(r) /\ r.owner = q.owner /\ r.key = q.key /\ r.asked = q.asked /\ r.since = q.since
        BY <4>1 DEF Active, CallRecords
      <4>4. QED
        BY <4>2, <4>3
    <3>3. CASE Build(t)
      <4>1. CASE calls' = [calls EXCEPT ![t].pc = "failing"]
        BY <3>1, <4>1
      <4>2. CASE calls' = [calls EXCEPT ![t].pc = "built", ![t].surface = Members(calls[t].owner, calls[t].key[1])]
        BY <3>2, <4>2
      <4>3. QED
        BY <3>3, <4>1, <4>2 DEF Build
    <3>4. CASE Settle(t)
      <4>1. PICK id \in NewIds :
              LET c == CheckOwner(cache, q.owner, id)
              IN IF cache.owner # q.owner
                 THEN cache' = cache /\ calls' = [calls EXCEPT ![t].pc = "answering"]
                 ELSE IF q.key \in DOMAIN c.lists
                 THEN cache' = c /\ calls' = [calls EXCEPT ![t].pc = "answering", ![t].surface = c.lists[q.key]]
                 ELSE IF IsSuperseded(c, q)
                 THEN cache' = c /\ calls' = [calls EXCEPT ![t].pc = "retrying", ![t].surface = NoMembers]
                 ELSE /\ cache' = Published(c, q.key, q.surface)
                      /\ calls' = [calls EXCEPT ![t].pc = "answering"]
        BY <1>1, <3>4 DEF Settle
      <4>2. \/ calls' = [calls EXCEPT ![t].pc = "answering"]
            \/ \E surface : calls' = [calls EXCEPT ![t].pc = "answering", ![t].surface = surface]
            \/ calls' = [calls EXCEPT ![t].pc = "retrying", ![t].surface = NoMembers]
        BY <4>1
      <4>3. QED
        BY <3>1, <3>2, <4>2
    <3>5. QED
      BY <1>7, <3>3, <3>4
  <2>2. QED
    BY <1>1, <1>2, <1>3, <2>1, HiddenFact
<1>8. CASE Finish(t)
  <2>1. CASE q.pc = "answering"
    <3>1. calls' = [calls EXCEPT ![t] = Ended("answered", q.surface)]
      BY <1>1, <1>2, <1>8, <2>1 DEF Finish
    <3>2. q.surface \in Surfaces
      BY DEF CallRecords
    <3>3. QED
      BY <1>1, <1>2, <2>1, <3>1, <3>2, AnsweredFact DEF SurfaceOK
  <2>2. CASE q.pc = "failing"
    <3>1. calls' = [calls EXCEPT ![t] = Ended("failed", NoMembers)]
      BY <1>1, <1>2, <1>8, <2>2 DEF Finish
    <3>2. QED
      BY <1>1, <1>2, <3>1, FailedFact
  <2>3. CASE q.pc = "retrying"
    <3>1. PICK r : r = [q EXCEPT !.pc = "asked", !.token = NoId, !.version = NoId]
      OBVIOUS
    <3>2. calls' = [calls EXCEPT ![t] = r]
      BY <1>1, <1>2, <1>8, <2>3, <3>1 DEF Finish
    <3>3. Active(r) /\ r.owner = q.owner /\ r.key = q.key /\ r.asked = q.asked /\ r.since = q.since
      BY <3>1 DEF Active, CallRecords
    <3>4. QED
      BY <1>1, <1>2, <1>3, <3>2, <3>3, HiddenFact
  <2>4. QED
    BY <1>1, <1>8, <2>1, <2>2, <2>3 DEF Finish
<1>9. QED
  BY <1>5, <1>6, <1>7, <1>8 DEF Step

\* The daemon's steps are changes.
LEMMA ChangeRefines ==
  ASSUME IInv, Rebuild \/ RebindRuntime \/ Install \/ InvalidateModel \/ Prewarm
  PROVE  Answers!Change
<1>1. calls' = calls
  BY DEF Rebuild, RebindRuntime, Install, InvalidateModel, Prewarm
<1>2. Requests' = Requests
  BY <1>1 DEF Requests, Request
<1>3. CASE Rebuild
  <2>1. PICK p \in Owners, labels \in SUBSET Labels : Made(p) /\ Reindexed(p, labels)
    BY <1>3 DEF Rebuild
  <2>2. p \in Answers!Owners /\ Answers!Made(p)
    BY <2>1 DEF Owners, Answers!Owners, Owner, Answers!Owner, Made, Answers!Made
  <2>3. Answers!Reindexed(p, labels)
    BY <2>1 DEF Reindexed, Answers!Reindexed, Changed, Answers!Changed, IsLive, Answers!IsLive
  <2>4. QED
    BY <1>2, <2>2, <2>3 DEF Answers!Change, Requests
<1>4. CASE RebindRuntime
  <2>1. PICK s \in DOMAIN data : Recatalogued(s)
    BY <1>4 DEF RebindRuntime
  <2>2. Answers!Recatalogued(s)
    BY <2>1 DEF Recatalogued, Answers!Recatalogued, Changed, Answers!Changed
  <2>3. QED
    BY <1>2, <2>2 DEF Answers!Change, Requests
<1>5. CASE Install
  <2>1. PICK s \in DOMAIN data : \E v \in {view[s], view[s] + 1} : Installed(s, v)
    BY <1>5 DEF Install
  <2>2. \E v \in {view[s], view[s] + 1} : Answers!Installed(s, v)
    BY <2>1 DEF Installed, Answers!Installed, Changed, Answers!Changed
  <2>3. QED
    BY <1>2, <2>2 DEF Answers!Change, Requests
<1>6. CASE InvalidateModel
  <2>1. PICK l \in Labels : Touched(cache.owner.index, l)
    BY <1>6 DEF InvalidateModel
  <2>2. cache.owner.index \in DOMAIN data
    BY <1>6 DEF InvalidateModel, IInv, CacheOK, Made
  <2>3. Answers!Touched(cache.owner.index, l)
    BY <2>1 DEF Touched, Answers!Touched, Changed, Answers!Changed
  <2>4. QED
    BY <1>2, <2>2, <2>3 DEF Answers!Change, Requests
<1>7. CASE Prewarm
  <2>1. Answers!RegistryReady
    BY <1>7 DEF Prewarm, RegistryReady, Answers!RegistryReady, Changed, Answers!Changed
  <2>2. QED
    BY <1>2, <2>1 DEF Answers!Change, Requests
<1>8. QED
  BY <1>3, <1>4, <1>5, <1>6, <1>7

\* The cache implements what MemberAnswers promises of get_list and find: each
\* answer is one that a computation during the request could have given.
THEOREM CacheIsInvisible == Spec => AnswersSpec
<1>1. Init => Answers!Init
  <2> SUFFICES ASSUME Init PROVE Answers!Init
    OBVIOUS
  <2>1. Answers!InitData
    BY DEF Init, InitData, Answers!InitData
  <2>2. Request(NoCall) = Answers!Over("idle", Answers!NoAnswer)
    BY DEF Request, NoCall, Call, NoOwner, Owner, NoMembers, Answers!Over, Answers!Request, Answers!Owner,
           Answers!NoAnswer
  <2>3. \A t \in Threads : calls[t] = NoCall
    BY DEF Init
  <2>4. Requests = [t \in Threads |-> Answers!Over("idle", Answers!NoAnswer)]
    BY <2>2, <2>3 DEF Requests
  <2>5. QED
    BY <2>1, <2>4 DEF Answers!Init, Requests
<1>2. IInv /\ [Next]_vars => [Answers!Next]_<<Answers!dataVars, [t \in Threads |-> Request(calls[t])]>>
  <2> SUFFICES ASSUME IInv, [Next]_vars
               PROVE  Answers!Next \/ (UNCHANGED Answers!dataVars /\ Requests' = Requests)
    BY DEF Requests
  <2>1. ASSUME NEW t \in Threads, Ask(t) PROVE Answers!Next
    BY <2>1, AskedFact DEF Answers!Next
  <2>2. ASSUME NEW t \in Threads, Step(t) PROVE Answers!Next \/ (UNCHANGED Answers!dataVars /\ Requests' = Requests)
    BY <2>2, StepRefines DEF Answers!Next
  <2>3. CASE Rebuild \/ RebindRuntime \/ Install \/ InvalidateModel \/ Prewarm
    BY <2>3, ChangeRefines DEF Answers!Next
  <2>4. CASE UNCHANGED vars
    BY <2>4 DEF vars, Answers!dataVars, Requests, Request
  <2>5. QED
    BY <2>1, <2>2, <2>3, <2>4 DEF Next
<1>3. QED
  BY <1>1, <1>2, InvariantHolds, PTL DEF Spec, AnswersSpec, Answers!Spec

-----------------------------------------------------------------------------
(* The builds under way are counted.                                       *)

Busy(r) == r.pc \in {"building", "built", "answering", "failing", "retrying"}

BuildOf(r) == <<r.token, r.key[1]>>

Builders(cs, b) == {t \in Threads : Busy(cs[t]) /\ BuildOf(cs[t]) = b}

Counted(f, cs) ==
  /\ \A b \in DOMAIN f : /\ IsFiniteSet(Builders(cs, b))
                         /\ f[b] = Cardinality(Builders(cs, b)) /\ f[b] > 0
  /\ \A t \in Threads : Busy(cs[t]) => BuildOf(cs[t]) \in DOMAIN f

\* One build more, and one less.
OneMore(f, b) ==
  [k \in DOMAIN f \cup {b} |-> IF k \notin DOMAIN f THEN 1 ELSE IF k = b THEN f[k] + 1 ELSE f[k]]

OneLess(f, b) == IF f[b] > 1 THEN [f EXCEPT ![b] = @ - 1] ELSE Restricted(f, DOMAIN f \ {b})

\* A call that begins to build is counted.
LEMMA BeginCounted ==
  ASSUME NEW f, IsPartial(f, Tagged, Nat), NEW cs \in [Threads -> CallRecords], Counted(f, cs),
         NEW t \in Threads, ~Busy(cs[t]), NEW r, Busy(r), NEW b, b = BuildOf(r),
         NEW g, g = OneMore(f, b)
  PROVE  Counted(g, [cs EXCEPT ![t] = r])
<1> DEFINE ds == [cs EXCEPT ![t] = r]
<1>0. g = [k \in DOMAIN f \cup {b} |-> IF k \notin DOMAIN f THEN 1 ELSE IF k = b THEN f[k] + 1 ELSE f[k]]
  BY DEF OneMore
<1>1. ds[t] = r /\ \A u \in Threads : u # t => ds[u] = cs[u]
  OBVIOUS
<1> HIDE DEF ds
<1>2. Builders(ds, b) = Builders(cs, b) \cup {t} /\ t \notin Builders(cs, b)
  BY <1>1 DEF Builders
<1>3. \A k : k # b => Builders(ds, k) = Builders(cs, k)
  BY <1>1 DEF Builders
<1>4. ASSUME NEW k \in DOMAIN g
      PROVE IsFiniteSet(Builders(ds, k)) /\ g[k] = Cardinality(Builders(ds, k)) /\ g[k] > 0
  <2>1. CASE k # b
    <3>1. k \in DOMAIN f /\ g[k] = f[k]
      BY <1>0, <2>1
    <3>2. QED
      BY <2>1, <3>1, <1>3 DEF Counted
  <2>2. CASE k = b /\ k \in DOMAIN f
    <3>1. g[k] = f[k] + 1 /\ f[k] \in Nat
      BY <1>0, <2>2 DEF IsPartial
    <3>2. IsFiniteSet(Builders(cs, k)) /\ f[k] = Cardinality(Builders(cs, k))
      BY <2>2 DEF Counted
    <3>3. IsFiniteSet(Builders(ds, k)) /\ Cardinality(Builders(ds, k)) = Cardinality(Builders(cs, k)) + 1
      <4>1. PICK S : S = Builders(cs, k)
        OBVIOUS
      <4>2. Builders(ds, k) = S \cup {t} /\ t \notin S /\ IsFiniteSet(S)
        BY <1>2, <2>2, <3>2, <4>1
      <4>3. IsFiniteSet(S \cup {t}) /\ Cardinality(S \cup {t}) = Cardinality(S) + 1
        BY <4>2, FS_AddElement
      <4>4. QED
        BY <4>1, <4>2, <4>3
    <3>4. QED
      BY <3>1, <3>2, <3>3
  <2>3. CASE k = b /\ k \notin DOMAIN f
    <3>1. g[k] = 1
      BY <1>0, <2>3
    <3>2. Builders(cs, k) = {}
      BY <2>3 DEF Counted, Builders
    <3>3. Builders(ds, k) = {t}
      BY <2>3, <3>2, <1>2
    <3>4. IsFiniteSet({t}) /\ Cardinality({t}) = 1
      BY FS_Singleton
    <3>5. QED
      BY <3>1, <3>3, <3>4
  <2>4. QED
    BY <2>1, <2>2, <2>3
<1>5. \A u \in Threads : Busy(ds[u]) => BuildOf(ds[u]) \in DOMAIN g
  BY <1>0, <1>1 DEF Counted
<1>6. QED
  BY <1>4, <1>5 DEF Counted, ds

\* A call that ends is no longer counted, and others of its kind still are.
LEMMA EndCounted ==
  ASSUME NEW f, IsPartial(f, Tagged, Nat), NEW cs \in [Threads -> CallRecords], Counted(f, cs),
         NEW t \in Threads, Busy(cs[t]), NEW r, ~Busy(r), NEW b, b = BuildOf(cs[t]),
         NEW g, g = OneLess(f, b)
  PROVE  Counted(g, [cs EXCEPT ![t] = r])
<1> DEFINE ds == [cs EXCEPT ![t] = r]
<1>1. ds[t] = r /\ \A u \in Threads : u # t => ds[u] = cs[u]
  OBVIOUS
<1> HIDE DEF ds
<1>2. Builders(ds, b) = Builders(cs, b) \ {t} /\ t \in Builders(cs, b)
  BY <1>1 DEF Builders
<1>3. \A k : k # b => Builders(ds, k) = Builders(cs, k)
  BY <1>1 DEF Builders
<1>4. b \in DOMAIN f /\ f[b] \in Nat /\ f[b] > 0
  BY DEF Counted, IsPartial
<1>5. IsFiniteSet(Builders(cs, b)) /\ f[b] = Cardinality(Builders(cs, b))
  BY <1>4 DEF Counted
<1>6. IsFiniteSet(Builders(ds, b)) /\ Cardinality(Builders(ds, b)) = f[b] - 1
  BY <1>2, <1>5, FS_RemoveElement
<1>7. CASE f[b] > 1
  <2>1. g = [f EXCEPT ![b] = @ - 1]
    BY <1>7 DEF OneLess
  <2>2. DOMAIN g = DOMAIN f /\ g[b] = f[b] - 1 /\ \A k \in DOMAIN f : k # b => g[k] = f[k]
    BY <2>1, <1>4 DEF IsPartial
  <2>3. ASSUME NEW k \in DOMAIN g
        PROVE IsFiniteSet(Builders(ds, k)) /\ g[k] = Cardinality(Builders(ds, k)) /\ g[k] > 0
    <3>1. CASE k = b
      BY <3>1, <2>2, <1>4, <1>6, <1>7
    <3>2. CASE k # b
      BY <3>2, <2>2, <1>3 DEF Counted
    <3>3. QED
      BY <3>1, <3>2
  <2>4. \A u \in Threads : Busy(ds[u]) => BuildOf(ds[u]) \in DOMAIN g
    BY <1>1, <2>2 DEF Counted
  <2>5. QED
    BY <2>3, <2>4 DEF Counted, ds
<1>8. CASE ~(f[b] > 1)
  <2>1. g = Restricted(f, DOMAIN f \ {b})
    BY <1>8 DEF OneLess
  <2>2. DOMAIN g = DOMAIN f \ {b} /\ \A k \in DOMAIN g : g[k] = f[k]
    BY <2>1 DEF Restricted
  <2>3. Cardinality(Builders(ds, b)) = 0
    BY <1>4, <1>6, <1>8
  <2>4. Builders(ds, b) = {}
    BY <2>3, <1>6, FS_EmptySet
  <2>5. ASSUME NEW k \in DOMAIN g
        PROVE IsFiniteSet(Builders(ds, k)) /\ g[k] = Cardinality(Builders(ds, k)) /\ g[k] > 0
    BY <2>2, <1>3 DEF Counted
  <2>6. ASSUME NEW u \in Threads, Busy(ds[u]) PROVE BuildOf(ds[u]) \in DOMAIN g
    <3>1. BuildOf(ds[u]) # b
      BY <2>4, <2>6 DEF Builders
    <3>2. Busy(cs[u]) /\ BuildOf(ds[u]) = BuildOf(cs[u])
      BY <1>1, <2>6
    <3>3. QED
      BY <2>2, <3>1, <3>2 DEF Counted
  <2>7. QED
    BY <2>5, <2>6 DEF Counted, ds
<1>9. QED
  BY <1>7, <1>8

\* A call that goes on, or is not one of them, stays as it is counted.
LEMMA StayCounted ==
  ASSUME NEW f, NEW cs \in [Threads -> CallRecords], Counted(f, cs), NEW t \in Threads, NEW r,
         (Busy(r) /\ Busy(cs[t]) /\ BuildOf(r) = BuildOf(cs[t])) \/ (~Busy(r) /\ ~Busy(cs[t]))
  PROVE  Counted(f, [cs EXCEPT ![t] = r])
<1> DEFINE ds == [cs EXCEPT ![t] = r]
<1>1. ds[t] = r /\ \A u \in Threads : u # t => ds[u] = cs[u]
  OBVIOUS
<1> HIDE DEF ds
<1>2. \A k : Builders(ds, k) = Builders(cs, k)
  BY <1>1 DEF Builders
<1>3. \A u \in Threads : Busy(ds[u]) => Busy(cs[u]) /\ BuildOf(ds[u]) = BuildOf(cs[u])
  BY <1>1
<1>4. Counted(f, ds)
  BY <1>2, <1>3 DEF Counted
<1>5. QED
  BY <1>4 DEF ds

\* Handing the cache over, or taking from it, forgets no build.
LEMMA HandedBuilds ==
  ASSUME NEW c, IsCache(c), NEW o \in SomeOwners, NEW ready \in BOOLEAN, NEW clear \in BOOLEAN, NEW id \in Ids
  PROVE  SetOwner(c, o, clear, ready, id).inflight = c.inflight /\ IsCache(SetOwner(c, o, clear, ready, id))
<1>1. IsPartial(Nothing, Keys, Surfaces) /\ IsPartial(Nothing, Labels, KeySets) /\ IsPartial(Nothing, Labels, Tokens)
  BY DEF IsPartial, Nothing
<1>2. IsPartial(c.lists, Keys, Surfaces) /\ IsPartial(c.keysByModel, Labels, KeySets) /\ IsPartial(c.versions, Labels, Tokens)
  BY DEF IsCache
<1>3. CASE clear
  <2> DEFINE d == SetOwner(c, o, clear, ready, id)
  <2>1. d = Handed(c, o, ready, id, Nothing, Nothing, Nothing)
    BY <1>3 DEF SetOwner, Handed
  <2>2. IsCache(d) /\ d = Fields(o, id, ready, Nothing, Nothing, d.versions, c.inflight)
    BY <1>1, <2>1, HandedFact
  <2>3. QED
    BY <2>2 DEF Fields
<1>4. CASE ~clear
  <2> DEFINE d == SetOwner(c, o, clear, ready, id)
  <2>1. d = Handed(c, o, ready, id, c.lists, c.keysByModel, c.versions)
    BY <1>4 DEF SetOwner, Handed
  <2>2. IsCache(d) /\ d = Fields(o, id, ready, c.lists, c.keysByModel, d.versions, c.inflight)
    BY <1>2, <2>1, HandedFact
  <2>3. QED
    BY <2>2 DEF Fields
<1>5. QED
  BY <1>3, <1>4

\* _check_owner forgets no build.
LEMMA CheckedBuilds ==
  ASSUME NEW c, IsCache(c), NEW o \in SomeOwners, registry \in BOOLEAN, NEW id \in Ids
  PROVE  CheckOwner(c, o, id).inflight = c.inflight /\ IsCache(CheckOwner(c, o, id))
BY HandedBuilds DEF CheckOwner

\* An invalidation forgets no build.
LEMMA InvalidatedBuilds ==
  ASSUME NEW c, IsCache(c), NEW labels, NEW id \in Ids
  PROVE  Invalidated(c, labels, id).inflight = c.inflight
<1> DEFINE keys  == UNION {c.keysByModel[l] : l \in labels \cap DOMAIN c.keysByModel}
           built == {l \in labels : <<c.token, l>> \in DOMAIN c.inflight}
           lists == Restricted(c.lists, DOMAIN c.lists \ keys)
           byModel == Restricted(c.keysByModel, DOMAIN c.keysByModel \ labels)
           versions == [l \in (DOMAIN c.versions \ labels) \cup built |-> IF l \in built THEN id ELSE c.versions[l]]
<1>1. [c EXCEPT !.lists = lists, !.keysByModel = byModel, !.versions = versions]
        = Fields(c.owner, c.token, c.ready, lists, byModel, versions, c.inflight)
  BY InvalidatedFieldsFact
<1>2. Invalidated(c, labels, id) = Fields(c.owner, c.token, c.ready, lists, byModel, versions, c.inflight)
  BY <1>1 DEF Invalidated
<1>3. QED
  BY <1>2 DEF Fields

\* A publication ends no build.
LEMMA PublishedBuilds ==
  ASSUME NEW c, IsCache(c), NEW key, NEW surface
  PROVE  Published(c, key, surface).inflight = c.inflight
<1> DEFINE keys == IF key[1] \in DOMAIN c.keysByModel THEN c.keysByModel[key[1]] \cup {key} ELSE {key}
           lists == [k \in DOMAIN c.lists \cup {key} |-> IF k = key THEN surface ELSE c.lists[k]]
           byModel == [l \in DOMAIN c.keysByModel \cup {key[1]} |-> IF l = key[1] THEN keys ELSE c.keysByModel[l]]
<1>1. [c EXCEPT !.lists = lists, !.keysByModel = byModel]
        = Fields(c.owner, c.token, c.ready, lists, byModel, c.versions, c.inflight)
  BY PublishedFieldsFact
<1>2. Published(c, key, surface) = Fields(c.owner, c.token, c.ready, lists, byModel, c.versions, c.inflight)
  BY <1>1 DEF Published
<1>3. QED
  BY <1>2 DEF Fields

\* _finish_build takes one build off its count.
LEMMA FinishedBuilds ==
  ASSUME NEW c, IsCache(c), NEW token \in Tokens, NEW label \in Labels, NEW b, b = <<token, label>>
  PROVE  FinishBuild(c, token, label).inflight = OneLess(c.inflight, b)
<1> DEFINE f == IF c.inflight[b] > 1 THEN [c.inflight EXCEPT ![b] = @ - 1]
                ELSE Restricted(c.inflight, DOMAIN c.inflight \ {b})
           e == Fields(c.owner, c.token, c.ready, c.lists, c.keysByModel, c.versions, f)
           d == FinishBuild(c, token, label)
<1>1. d = CleanModelVersions(e, {label})
  <2>1. CASE c.inflight[b] > 1
    <3>1. e = [c EXCEPT !.inflight[b] = @ - 1]
      BY <2>1 DEF IsCache, Fields
    <3>2. QED
      BY <2>1, <3>1 DEF FinishBuild
  <2>2. CASE ~(c.inflight[b] > 1)
    <3>1. e = [c EXCEPT !.inflight = Restricted(c.inflight, DOMAIN c.inflight \ {b})]
      BY <2>2 DEF IsCache, Fields
    <3>2. QED
      BY <2>2, <3>1 DEF FinishBuild
  <2>3. QED
    BY <2>1, <2>2
<1>2. IsPartial(f, Tagged, Nat)
  <2>1. IsPartial(c.inflight, Tagged, Nat)
    BY DEF IsCache
  <2>2. CASE c.inflight[b] > 1
    <3>1. f = [c.inflight EXCEPT ![b] = @ - 1]
      BY <2>2
    <3>2. b \in DOMAIN c.inflight => c.inflight[b] - 1 \in Nat
      BY <2>1, <2>2 DEF IsPartial
    <3>3. QED
      BY <2>1, <3>1, <3>2 DEF IsPartial
  <2>3. CASE ~(c.inflight[b] > 1)
    BY <2>1, <2>3 DEF IsPartial, Restricted
  <2>4. QED
    BY <2>2, <2>3
<1> HIDE DEF f
<1>3. IsCache(e) /\ e.inflight = f
  BY <1>2 DEF IsCache, Fields
<1> HIDE DEF e
<1>4. d = Fields(e.owner, e.token, e.ready, e.lists, e.keysByModel, d.versions, e.inflight)
  BY <1>1, <1>3, CleanFact
<1>5. d.inflight = f
  BY <1>3, <1>4 DEF Fields
<1>6. QED
  BY <1>5 DEF f, OneLess

BuildsOK == Counted(cache.inflight, calls)

\* The daemon's steps leave calls and builds as they are.
LEMMA ChangeKeepsBuilds ==
  ASSUME IInv, IInv', BuildsOK, Rebuild \/ RebindRuntime \/ Install \/ InvalidateModel \/ Prewarm
  PROVE  BuildsOK'
<1>1. calls' = calls
  BY DEF Rebuild, RebindRuntime, Install, InvalidateModel, Prewarm
<1>2. IsCache(cache) /\ IsCache(cache') /\ registry \in BOOLEAN /\ DataOK /\ DataOK'
  BY DEF IInv, TypeOK, DataOK
<1>3. cache.ready \in BOOLEAN
  BY <1>2 DEF IsCache
<1>4. ASSUME NEW id \in NewIds PROVE id \in Ids
  BY <1>4, NewIdsFact
<1>5. CASE Rebuild
  <2>1. PICK p \in Owners, labels \in SUBSET Labels, id \in NewIds :
          Made(p) /\ Reindexed(p, labels) /\ cache' = ForceOwner(cache, Owner(Len(data'), 1), p, labels, id)
    BY <1>5 DEF Rebuild
  <2> DEFINE reusable == cache.owner = p /\ cache.ready = registry
             h == SetOwner(cache, Owner(Len(data'), 1), ~reusable, registry, id)
  <2>2. cache' = Invalidated(h, labels, id)
    BY <2>1 DEF ForceOwner
  <2>3. Owner(Len(data'), 1) \in SomeOwners
    BY <1>2 DEF DataOK, Owner, SomeOwners
  <2>4. (~reusable) \in BOOLEAN
    OBVIOUS
  <2>5. h.inflight = cache.inflight /\ IsCache(h)
    <3>1. PICK o, clear : o = Owner(Len(data'), 1) /\ clear = ~reusable
      OBVIOUS
    <3>2. h = SetOwner(cache, o, clear, registry, id) /\ o \in SomeOwners /\ clear \in BOOLEAN
      BY <2>3, <2>4, <3>1
    <3> HIDE DEF h
    <3>3. id \in Ids
      BY <1>4
    <3>4. QED
      BY <1>2, <3>2, <3>3, HandedBuilds
  <2> HIDE DEF h
  <2>6. cache'.inflight = cache.inflight
    BY <1>4, <2>2, <2>5, InvalidatedBuilds
  <2>7. QED
    BY <1>1, <2>6 DEF BuildsOK
<1>6. CASE RebindRuntime
  <2>1. PICK s \in DOMAIN data, id \in NewIds :
          /\ Recatalogued(s)
          /\ cache' = IF cache.owner = Owner(s, view[s])
                   THEN SetOwner(cache, Owner(s, view'[s]), cache.ready # registry, registry, id) ELSE cache
    BY <1>6 DEF RebindRuntime
  <2>2. CASE cache.owner = Owner(s, view[s])
    <3>1. PICK o : o = Owner(s, view'[s])
      OBVIOUS
    <3>2. o \in SomeOwners
      <4>1. DOMAIN view = DOMAIN data /\ DOMAIN view' = DOMAIN data' /\ data' = data
        BY <1>2, <2>1 DEF DataOK, Recatalogued
      <4>2. view'[s] \in Nat /\ s \in Nat
        BY <1>2, <4>1 DEF DataOK
      <4>3. QED
        BY <3>1, <4>2 DEF Owner, SomeOwners
    <3>3. PICK clear : clear = (cache.ready # registry)
      OBVIOUS
    <3>4. clear \in BOOLEAN /\ id \in Ids
      BY <1>4, <3>3
    <3>5. cache' = SetOwner(cache, o, clear, registry, id)
      BY <2>1, <2>2, <3>1, <3>3
    <3>6. SetOwner(cache, o, clear, registry, id).inflight = cache.inflight
      BY <1>2, <3>2, <3>4, HandedBuilds
    <3>7. cache'.inflight = cache.inflight
      BY <3>5, <3>6
    <3>8. QED
      BY <1>1, <3>7 DEF BuildsOK
  <2>3. CASE cache.owner # Owner(s, view[s])
    BY <1>1, <2>1, <2>3 DEF BuildsOK
  <2>4. QED
    BY <2>2, <2>3
<1>7. CASE Install
  <2>1. PICK s \in DOMAIN data, id \in NewIds : \E v \in {view[s], view[s] + 1} :
          cache' = IF cache.owner \in {Owner(s, v), Owner(s, view[s])}
                   THEN SetOwner(cache, Owner(s, v), TRUE, registry, id) ELSE cache
    BY <1>7 DEF Install
  <2>1a. PICK v \in {view[s], view[s] + 1} :
          cache' = IF cache.owner \in {Owner(s, v), Owner(s, view[s])}
                   THEN SetOwner(cache, Owner(s, v), TRUE, registry, id) ELSE cache
    BY <2>1
  <2>2. CASE cache.owner \in {Owner(s, v), Owner(s, view[s])}
    <3>1. PICK o : o = Owner(s, v)
      OBVIOUS
    <3>2. view[s] \in Nat /\ s \in Nat
      BY <1>2 DEF DataOK
    <3>3. o \in SomeOwners
      BY <3>1, <3>2 DEF Owner, SomeOwners
    <3>4. cache' = SetOwner(cache, o, TRUE, registry, id)
      BY <2>1a, <2>2, <3>1
    <3>5. TRUE \in BOOLEAN /\ id \in Ids
      BY <1>4
    <3>6. SetOwner(cache, o, TRUE, registry, id).inflight = cache.inflight
      BY <1>2, <3>3, <3>5, HandedBuilds
    <3>7. QED
      BY <1>1, <3>4, <3>6 DEF BuildsOK
  <2>3. CASE cache.owner \notin {Owner(s, v), Owner(s, view[s])}
    BY <1>1, <2>1a, <2>3 DEF BuildsOK
  <2>4. QED
    BY <2>2, <2>3
<1>8. CASE InvalidateModel
  <2>1. PICK l \in Labels, id \in NewIds : cache' = Invalidated(cache, {l}, id)
    BY <1>8 DEF InvalidateModel
  <2>2. cache'.inflight = cache.inflight
    BY <1>2, <1>4, <2>1, InvalidatedBuilds
  <2>3. QED
    BY <1>1, <2>2 DEF BuildsOK
<1>9. CASE Prewarm
  BY <1>1, <1>9 DEF BuildsOK, Prewarm
<1>10. QED
  BY <1>5, <1>6, <1>7, <1>8, <1>9

\* A miss counts one more build, under the token of the cache.
LEMMA MissedBuilds ==
  ASSUME NEW c, IsCache(c), NEW label \in Labels, NEW id \in Ids, NEW b, b = <<c.token, label>>
  PROVE  /\ Missed(c, label, id).token = c.token
         /\ Missed(c, label, id).inflight = OneMore(c.inflight, b)
<1> DEFINE v == [l \in DOMAIN c.versions \cup {label} |-> IF l \in DOMAIN c.versions THEN c.versions[l] ELSE id]
           f == [k \in DOMAIN c.inflight \cup {b} |->
                   IF k \notin DOMAIN c.inflight THEN 1 ELSE IF k = b THEN c.inflight[k] + 1 ELSE c.inflight[k]]
<1>1. Missed(c, label, id) = [c EXCEPT !.versions = v, !.inflight = f]
  BY DEF Missed
<1>2. f = OneMore(c.inflight, b)
  BY DEF OneMore
<1> HIDE DEF v, f
<1>3. [c EXCEPT !.versions = v, !.inflight = f]
        = Fields(c.owner, c.token, c.ready, c.lists, c.keysByModel, v, f)
  BY MissedFieldsFact
<1>4. QED
  BY <1>1, <1>2, <1>3 DEF Fields

\* A question is not a build yet.
LEMMA AskKeepsBuilds ==
  ASSUME IInv, BuildsOK, NEW t \in Threads, Ask(t)
  PROVE  BuildsOK'
<1>1. PICK r : ~Busy(r) /\ calls' = [calls EXCEPT ![t] = r]
  <2>1. PICK o \in Owners, key \in Keys, pc \in {"finding", "asked"} :
          calls' = [calls EXCEPT ![t] = Call(pc, o, key, IsLive(o), Members(o, key[1]))]
    BY DEF Ask
  <2>2. ~Busy(Call(pc, o, key, IsLive(o), Members(o, key[1])))
    BY DEF Busy, Call
  <2>3. QED
    BY <2>1, <2>2
<1>2. ~Busy(calls[t]) /\ cache' = cache
  BY DEF Ask, Busy
<1>3. calls \in [Threads -> CallRecords]
  BY DEF IInv, TypeOK
<1>4. QED
  BY <1>1, <1>2, <1>3, StayCounted DEF BuildsOK

\* A call is counted from the miss to the finally block.
LEMMA StepKeepsBuilds ==
  ASSUME IInv, BuildsOK, NEW t \in Threads, Step(t)
  PROVE  BuildsOK'
<1>1. /\ calls \in [Threads -> CallRecords] /\ calls[t] \in CallRecords /\ IsCache(cache)
      /\ registry \in BOOLEAN /\ IsPartial(cache.inflight, Tagged, Nat)
  BY DEF IInv, TypeOK, DataOK, IsCache
<1>2. Active(calls[t]) => calls[t].key \in Keys /\ calls[t].key[1] \in Labels /\ calls[t].owner \in SomeOwners
  BY <1>1, OneCallFact, ActiveFact
<1>3. ASSUME NEW id \in NewIds PROVE id \in Ids
  BY <1>3, NewIdsFact
<1>4. ASSUME NEW pc, NEW s PROVE Ended(pc, s).pc = pc
  BY DEF Ended, NoCall, Call
<1>5. CASE Find(t)
  <2>1. PICK id \in NewIds : cache' = CheckOwner(cache, calls[t].owner, id)
    BY <1>5 DEF Find
  <2>2. Active(calls[t]) /\ ~Busy(calls[t])
    BY <1>5 DEF Find, Active, Busy
  <2>3. cache'.inflight = cache.inflight
    BY <1>1, <1>2, <1>3, <2>1, <2>2, CheckedBuilds
  <2>4. PICK r : ~Busy(r) /\ calls' = [calls EXCEPT ![t] = r]
    <3>1. CASE calls[t].key \in DOMAIN cache'.lists
      <4>1. ~Busy(Ended("answered", cache'.lists[calls[t].key]))
        BY <1>4 DEF Busy
      <4>2. QED
        BY <1>5, <3>1, <4>1 DEF Find, Answered
    <3>2. CASE calls[t].key \notin DOMAIN cache'.lists
      <4>1. PICK r : r = [calls[t] EXCEPT !.pc = "asked"]
        OBVIOUS
      <4>2. calls' = [calls EXCEPT ![t] = r]
        BY <1>5, <3>2, <4>1 DEF Find
      <4>3. r.pc = "asked"
        BY <1>1, <4>1 DEF CallRecords
      <4>4. QED
        BY <4>2, <4>3 DEF Busy
    <3>3. QED
      BY <3>1, <3>2
  <2>5. QED
    BY <1>1, <2>2, <2>3, <2>4, StayCounted DEF BuildsOK
<1>6. CASE Look(t)
  <2>1. Active(calls[t]) /\ ~Busy(calls[t])
    BY <1>6 DEF Look, Active, Busy
  <2>2. PICK id \in NewIds :
          LET key == calls[t].key
              c   == CheckOwner(cache, calls[t].owner, id)
              m   == Missed(c, key[1], id)
          IN IF key \in DOMAIN c.lists
             THEN cache' = c /\ Answered(t, c.lists[key])
             ELSE /\ cache' = m
                  /\ calls' = [calls EXCEPT ![t].pc = "building", ![t].token = m.token,
                                            ![t].version = m.versions[key[1]]]
    BY <1>6 DEF Look
  <2>3. PICK key : key = calls[t].key
    OBVIOUS
  <2>4. PICK c : c = CheckOwner(cache, calls[t].owner, id)
    OBVIOUS
  <2>5. c.inflight = cache.inflight /\ IsCache(c)
    BY <1>1, <1>2, <1>3, <2>1, <2>4, CheckedBuilds
  <2>6. CASE key \in DOMAIN c.lists
    <3>1. cache' = c /\ calls' = [calls EXCEPT ![t] = Ended("answered", c.lists[key])]
      BY <2>2, <2>3, <2>4, <2>6 DEF Answered
    <3>2. ~Busy(Ended("answered", c.lists[key]))
      BY <1>4 DEF Busy
    <3>3. QED
      BY <1>1, <2>1, <2>5, <3>1, <3>2, StayCounted DEF BuildsOK
  <2>7. CASE key \notin DOMAIN c.lists
    <3>1. PICK m : m = Missed(c, key[1], id)
      OBVIOUS
    <3>2. PICK r : r = [calls[t] EXCEPT !.pc = "building", !.token = m.token, !.version = m.versions[key[1]]]
      OBVIOUS
    <3>3. cache' = m /\ calls' = [calls EXCEPT ![t] = r]
      <4>1. calls' = [calls EXCEPT ![t].pc = "building", ![t].token = m.token, ![t].version = m.versions[key[1]]]
        BY <2>2, <2>3, <2>4, <2>7, <3>1
      <4>2. QED
        BY <1>1, <2>2, <2>3, <2>4, <2>7, <3>1, <3>2, <4>1
    <3>4. r.pc = "building" /\ r.token = m.token /\ r.key = key
      BY <1>1, <2>3, <3>2 DEF CallRecords
    <3>5. PICK b : b = <<c.token, key[1]>>
      OBVIOUS
    <3>6. /\ m.token = c.token
          /\ m.inflight = OneMore(c.inflight, b)
      BY <1>2, <1>3, <2>1, <2>3, <2>5, <3>1, <3>5, MissedBuilds
    <3>7. Busy(r) /\ b = BuildOf(r)
      BY <3>4, <3>5, <3>6 DEF Busy, BuildOf
    <3>8. Counted(m.inflight, [calls EXCEPT ![t] = r])
      <4>1. PICK f : f = cache.inflight
        OBVIOUS
      <4>2. PICK g : g = m.inflight
        OBVIOUS
      <4>3. g = OneMore(f, b)
        BY <2>5, <3>6, <4>1, <4>2
      <4>4. Counted(f, calls) /\ IsPartial(f, Tagged, Nat)
        BY <1>1, <4>1 DEF BuildsOK
      <4>5. Counted(g, [calls EXCEPT ![t] = r])
        BY <1>1, <2>1, <3>7, <4>3, <4>4, BeginCounted
      <4>6. QED
        BY <4>2, <4>5
    <3>9. QED
      BY <3>3, <3>8 DEF BuildsOK
  <2>8. QED
    BY <2>6, <2>7
<1>7. CASE Build(t)
  <2>1. cache' = cache /\ calls[t].pc = "building"
    BY <1>7 DEF Build
  <2>2. PICK r : Busy(r) /\ BuildOf(r) = BuildOf(calls[t]) /\ calls' = [calls EXCEPT ![t] = r]
    <3>1. CASE calls' = [calls EXCEPT ![t].pc = "built", ![t].surface = Members(calls[t].owner, calls[t].key[1])]
      <4>1. PICK r : r = [calls[t] EXCEPT !.pc = "built", !.surface = Members(calls[t].owner, calls[t].key[1])]
        OBVIOUS
      <4>2. calls' = [calls EXCEPT ![t] = r]
        BY <1>1, <3>1, <4>1
      <4>3. r.pc = "built" /\ r.token = calls[t].token /\ r.key = calls[t].key
        BY <1>1, <4>1 DEF CallRecords
      <4>4. QED
        BY <4>2, <4>3 DEF Busy, BuildOf
    <3>2. CASE calls' = [calls EXCEPT ![t].pc = "failing"]
      <4>1. PICK r : r = [calls[t] EXCEPT !.pc = "failing"]
        OBVIOUS
      <4>2. calls' = [calls EXCEPT ![t] = r]
        BY <1>1, <3>2, <4>1
      <4>3. r.pc = "failing" /\ r.token = calls[t].token /\ r.key = calls[t].key
        BY <1>1, <4>1 DEF CallRecords
      <4>4. QED
        BY <4>2, <4>3 DEF Busy, BuildOf
    <3>3. QED
      BY <1>7, <3>1, <3>2 DEF Build
  <2>3. Busy(calls[t])
    BY <2>1 DEF Busy
  <2>4. QED
    BY <1>1, <2>1, <2>2, <2>3, StayCounted DEF BuildsOK
<1>8. CASE Settle(t)
  <2>1. Active(calls[t]) /\ Busy(calls[t])
    BY <1>8 DEF Settle, Active, Busy
  <2>2. PICK id \in NewIds :
          LET call == calls[t]
              key  == call.key
              c    == CheckOwner(cache, call.owner, id)
          IN IF cache.owner # call.owner
             THEN cache' = cache /\ calls' = [calls EXCEPT ![t].pc = "answering"]
             ELSE IF key \in DOMAIN c.lists
             THEN cache' = c /\ calls' = [calls EXCEPT ![t].pc = "answering", ![t].surface = c.lists[key]]
             ELSE IF IsSuperseded(c, call)
             THEN cache' = c /\ calls' = [calls EXCEPT ![t].pc = "retrying", ![t].surface = NoMembers]
             ELSE /\ cache' = Published(c, key, call.surface)
                  /\ calls' = [calls EXCEPT ![t].pc = "answering"]
    BY <1>8 DEF Settle
  <2>3. PICK q : q = calls[t]
    OBVIOUS
  <2>4. PICK c : c = CheckOwner(cache, q.owner, id)
    OBVIOUS
  <2>5. c.inflight = cache.inflight /\ IsCache(c)
    BY <1>1, <1>2, <1>3, <2>1, <2>3, <2>4, CheckedBuilds
  <2>6. cache'.inflight = cache.inflight
    <3>1. cache' \in {cache, c, Published(c, q.key, q.surface)}
      BY <2>2, <2>3, <2>4
    <3>2. Published(c, q.key, q.surface).inflight = c.inflight
      BY <2>5, PublishedBuilds
    <3>3. QED
      BY <2>5, <3>1, <3>2
  <2>7. \E pc \in {"answering", "retrying"} :
          \/ calls' = [calls EXCEPT ![t].pc = pc]
          \/ \E s : calls' = [calls EXCEPT ![t].pc = pc, ![t].surface = s]
    BY <2>2
  <2>8. PICK pc \in {"answering", "retrying"} :
          \/ calls' = [calls EXCEPT ![t].pc = pc]
          \/ \E s : calls' = [calls EXCEPT ![t].pc = pc, ![t].surface = s]
    BY <2>7
  <2>9. PICK r : Busy(r) /\ BuildOf(r) = BuildOf(q) /\ calls' = [calls EXCEPT ![t] = r]
    <3>1. CASE calls' = [calls EXCEPT ![t].pc = pc]
      <4>1. PICK r : r = [q EXCEPT !.pc = pc]
        OBVIOUS
      <4>2. calls' = [calls EXCEPT ![t] = r]
        BY <1>1, <2>3, <3>1, <4>1
      <4>3. r.pc = pc /\ r.token = q.token /\ r.key = q.key
        BY <1>1, <2>3, <4>1 DEF CallRecords
      <4>4. QED
        BY <4>2, <4>3 DEF Busy, BuildOf
    <3>2. ASSUME NEW s, calls' = [calls EXCEPT ![t].pc = pc, ![t].surface = s]
          PROVE \E r : Busy(r) /\ BuildOf(r) = BuildOf(q) /\ calls' = [calls EXCEPT ![t] = r]
      <4>1. PICK r : r = [q EXCEPT !.pc = pc, !.surface = s]
        OBVIOUS
      <4>2. calls' = [calls EXCEPT ![t] = r]
        BY <1>1, <2>3, <3>2, <4>1
      <4>3. r.pc = pc /\ r.token = q.token /\ r.key = q.key
        BY <1>1, <2>3, <4>1 DEF CallRecords
      <4>4. QED
        BY <4>2, <4>3 DEF Busy, BuildOf
    <3>3. QED
      BY <2>8, <3>1, <3>2
  <2>10. QED
    BY <1>1, <2>1, <2>3, <2>6, <2>9, StayCounted DEF BuildsOK
<1>9. CASE Finish(t)
  <2>1. Active(calls[t]) /\ Busy(calls[t])
    BY <1>9 DEF Finish, Active, Busy
  <2>2. PICK q : q = calls[t]
    OBVIOUS
  <2>3. PICK b : b = BuildOf(q)
    OBVIOUS
  <2>4. cache'.inflight = OneLess(cache.inflight, b)
    <3>1. cache' = FinishBuild(cache, q.token, q.key[1])
      BY <1>9, <2>2 DEF Finish
    <3>2. q.token \in Tokens /\ q.key[1] \in Labels /\ b = <<q.token, q.key[1]>>
      BY <1>1, <1>2, <2>1, <2>2, <2>3 DEF CallRecords, BuildOf
    <3>3. FinishBuild(cache, q.token, q.key[1]).inflight = OneLess(cache.inflight, b)
      BY <1>1, <3>2, FinishedBuilds
    <3>4. QED
      BY <3>1, <3>3
  <2>5. PICK r : ~Busy(r) /\ calls' = [calls EXCEPT ![t] = r]
    <3>1. CASE q.pc = "answering"
      <4>1. calls' = [calls EXCEPT ![t] = Ended("answered", q.surface)]
        BY <1>1, <1>9, <2>2, <3>1 DEF Finish
      <4>2. QED
        BY <1>4, <4>1 DEF Busy
    <3>2. CASE q.pc = "failing"
      <4>1. calls' = [calls EXCEPT ![t] = Ended("failed", NoMembers)]
        BY <1>1, <1>9, <2>2, <3>2 DEF Finish
      <4>2. QED
        BY <1>4, <4>1 DEF Busy
    <3>3. CASE q.pc = "retrying"
      <4>1. PICK r : r = [q EXCEPT !.pc = "asked", !.token = NoId, !.version = NoId]
        OBVIOUS
      <4>2. calls' = [calls EXCEPT ![t] = r]
        BY <1>1, <1>9, <2>2, <3>3, <4>1 DEF Finish
      <4>3. r.pc = "asked"
        BY <1>1, <2>2, <4>1 DEF CallRecords
      <4>4. QED
        BY <4>2, <4>3 DEF Busy
    <3>4. QED
      BY <1>9, <2>2, <3>1, <3>2, <3>3 DEF Finish
  <2>6. QED
    BY <1>1, <2>1, <2>2, <2>3, <2>4, <2>5, EndCounted DEF BuildsOK
<1>10. QED
  BY <1>5, <1>6, <1>7, <1>8, <1>9 DEF Step

\* Each build under way is counted once under its token (get_list,
\* _finish_build), however the cache changed hands meanwhile.
THEOREM BuildsHaveCounts == Spec => []BuildsAreCounted
<1>1. Init => BuildsOK
  <2> SUFFICES ASSUME Init PROVE BuildsOK
    OBVIOUS
  <2>1. DOMAIN cache.inflight = {}
    BY DEF Init, Nothing
  <2>2. \A t \in Threads : ~Busy(calls[t])
    BY DEF Init, Busy, NoCall, Call
  <2>3. QED
    BY <2>1, <2>2 DEF BuildsOK, Counted
<1>2. IInv /\ IInv' /\ BuildsOK /\ [Next]_vars => BuildsOK'
  <2> SUFFICES ASSUME IInv, IInv', BuildsOK, [Next]_vars PROVE BuildsOK'
    OBVIOUS
  <2>1. CASE UNCHANGED vars
    BY <2>1 DEF vars, BuildsOK
  <2>2. ASSUME NEW t \in Threads, Ask(t) PROVE BuildsOK'
    BY <2>2, AskKeepsBuilds
  <2>3. ASSUME NEW t \in Threads, Step(t) PROVE BuildsOK'
    BY <2>3, StepKeepsBuilds
  <2>4. CASE Rebuild \/ RebindRuntime \/ Install \/ InvalidateModel \/ Prewarm
    BY <2>4, ChangeKeepsBuilds
  <2>5. QED
    BY <2>1, <2>2, <2>3, <2>4 DEF Next
<1>3. IInv /\ BuildsOK => BuildsAreCounted
  <2> SUFFICES ASSUME IInv, BuildsOK PROVE BuildsAreCounted
    OBVIOUS
  <2>1. DOMAIN cache.inflight \subseteq Tagged
    BY DEF IInv, TypeOK, IsCache, IsPartial
  <2>2. ASSUME NEW b \in DOMAIN cache.inflight PROVE Builders(calls, b) = Building(b[1], b[2])
    <3>1. b = <<b[1], b[2]>>
      BY <2>1 DEF Tagged
    <3>2. \A t \in Threads : BuildOf(calls[t]) = b <=> calls[t].token = b[1] /\ calls[t].key[1] = b[2]
      BY <3>1 DEF BuildOf
    <3>3. QED
      BY <3>2 DEF Builders, Building, Busy
  <2>3. QED
    BY <2>2 DEF BuildsOK, Counted, BuildsAreCounted, Busy, BuildOf
<1>4. QED
  BY <1>1, <1>2, <1>3, InvariantHolds, PTL DEF Spec
=============================================================================
