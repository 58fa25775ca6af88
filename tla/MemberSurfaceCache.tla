-------------------------- MODULE MemberSurfaceCache --------------------------
(***************************************************************************)
(* The cache of member surfaces shared by the daemon's threads             *)
(* (_MemberSurfaceCache of features/orm_members.py).  It belongs to one    *)
(* owner at a time.  A surface is computed without the lock; meanwhile the *)
(* cache may be handed to another owner, labels may be invalidated, and    *)
(* other threads may fill it.  Each section under the lock is one action.  *)
(*                                                                         *)
(* The list and the dict of a surface are always kept together and are one *)
(* entry here; owners are never collected, and the counts of hits and      *)
(* misses are left out.  object() in the code is an identity that nobody   *)
(* holds: the cache and the builds under way hold some, and an identity    *)
(* may come back when the last of them let it go.                          *)
(***************************************************************************)
EXTENDS MemberData, FiniteSets

CONSTANTS
  Threads,
  Receivers,     \* receiver kinds, with a manager name
  Ids,           \* the identities; with too few the cache would stop
  MaxAsks        \* bound on the requests

VARIABLES
  cache,         \* the cache, its fields as in __init__
  calls,         \* thread -> its call of get_list
  asks           \* the requests so far

vars == <<data, view, registry, changes, cache, calls, asks>>

Keys == Labels \X Receivers

NoOwner == Owner(0, 0)

Nothing == [k \in {} |-> {}]

NoId == 0

ASSUME IdAssumption == NoId \notin Ids

Restricted(f, keep) == [k \in DOMAIN f \cap keep |-> f[k]]

-----------------------------------------------------------------------------
(* The helpers of the cache, called with the lock held.                    *)

\* A version is kept for cached keys and for builds under the current token.
CleanModelVersions(c, labels) ==
  LET kept == {l \in Labels : l \in labels => l \in DOMAIN c.keysByModel \/ <<c.token, l>> \in DOMAIN c.inflight}
  IN [c EXCEPT !.versions = Restricted(@, kept)]

\* faulty: the keys of the models are not cleared with the lists
SetOwnerListsOnly(c, o, clear, ready, id) ==
  LET handed == [c EXCEPT !.owner = o, !.token = id, !.ready = ready,
                   !.lists = IF clear THEN Nothing ELSE @]
  IN CleanModelVersions(handed, {k[2] : k \in DOMAIN c.inflight})

\* The cache is handed to another owner, under a new token.
SetOwner(c, o, clear, ready, id) ==
  LET handed == [c EXCEPT !.owner = o, !.token = id, !.ready = ready,
                   !.lists = IF clear THEN Nothing ELSE @,
                   !.keysByModel = IF clear THEN Nothing ELSE @,
                   !.versions = IF clear THEN Nothing ELSE @]
  IN CleanModelVersions(handed, {k[2] : k \in DOMAIN c.inflight})

\* faulty: the registry may have become ready since
CheckOwnerOnly(c, o, id) == IF c.owner # o THEN SetOwner(c, o, TRUE, registry, id) ELSE c

\* faulty: the cache is cleared for its own owner too
CheckOwnerAnew(c, o, id) == SetOwner(c, o, TRUE, registry, id)

CheckOwner(c, o, id) ==
  IF c.owner # o \/ c.ready # registry THEN SetOwner(c, o, TRUE, registry, id) ELSE c

\* A miss: the version of the model is noted, and one more build is under way.
Missed(c, label, id) ==
  LET build == <<c.token, label>>
  IN [c EXCEPT
        !.versions = [l \in DOMAIN @ \cup {label} |-> IF l \in DOMAIN @ THEN @[l] ELSE id],
        !.inflight = [b \in DOMAIN @ \cup {build} |->
                        IF b \notin DOMAIN @ THEN 1 ELSE IF b = build THEN @[b] + 1 ELSE @[b]]]

\* faulty: the other builds of the model are forgotten
FinishAllBuilds(c, token, label) ==
  CleanModelVersions([c EXCEPT !.inflight = Restricted(@, DOMAIN @ \ {<<token, label>>})], {label})

FinishBuild(c, token, label) ==
  LET build == <<token, label>>
      ended == IF c.inflight[build] > 1 THEN [c EXCEPT !.inflight[build] = @ - 1]
               ELSE [c EXCEPT !.inflight = Restricted(@, DOMAIN @ \ {build})]
  IN CleanModelVersions(ended, {label})

Published(c, key, surface) ==
  LET keys == IF key[1] \in DOMAIN c.keysByModel THEN c.keysByModel[key[1]] \cup {key} ELSE {key}
  IN [c EXCEPT
        !.lists = [k \in DOMAIN @ \cup {key} |-> IF k = key THEN surface ELSE @[k]],
        !.keysByModel = [l \in DOMAIN @ \cup {key[1]} |-> IF l = key[1] THEN keys ELSE @[l]]]

Invalidated(c, labels, id) ==
  LET keys  == UNION {c.keysByModel[l] : l \in labels \cap DOMAIN c.keysByModel}
      built == {l \in labels : <<c.token, l>> \in DOMAIN c.inflight}
  IN [c EXCEPT
        !.lists = Restricted(@, DOMAIN @ \ keys),
        !.keysByModel = Restricted(@, DOMAIN @ \ labels),
        !.versions = [l \in (DOMAIN @ \ labels) \cup built |-> IF l \in built THEN id ELSE @[l]]]

\* Only the entries of the expected owner are reused.
ForceOwner(c, o, previous, labels, id) ==
  LET reusable == c.owner = previous /\ c.ready = registry
  IN Invalidated(SetOwner(c, o, ~reusable, registry, id), labels, id)

-----------------------------------------------------------------------------
(* get_list and find.                                                      *)

NoMembers == [stamp |-> 0, live |-> FALSE]

Call(pc, o, key, asked, since) ==
  [pc |-> pc, owner |-> o, key |-> key, token |-> NoId, version |-> NoId,
   surface |-> NoMembers, asked |-> asked, since |-> since]

NoCall == Call("idle", NoOwner, <<>>, FALSE, NoMembers)

\* An identity that nobody holds.
NewIds ==
  LET held == {cache.token} \cup {cache.versions[l] : l \in DOMAIN cache.versions}
                \cup {b[1] : b \in DOMAIN cache.inflight}
                \cup {calls[t].token : t \in Threads} \cup {calls[t].version : t \in Threads}
  IN IF Ids \subseteq held THEN {} ELSE {CHOOSE i \in Ids : i \notin held}

Init ==
  /\ InitData
  /\ cache = [owner |-> NoOwner, token |-> NoId, ready |-> FALSE, lists |-> Nothing, keysByModel |-> Nothing,
              versions |-> Nothing, inflight |-> Nothing]
  /\ calls = [t \in Threads |-> NoCall]
  /\ asks = 0

\* A call of find, or of get_list.  A request holds any snapshot that it may
\* have read from the daemon.
Ask(t) ==
  /\ asks < MaxAsks
  /\ calls[t].pc \in {"idle", "answered", "failed"}
  /\ \E o \in Owners, key \in Keys, pc \in {"finding", "asked"} :
       /\ Made(o)
       /\ calls' = [calls EXCEPT ![t] = Call(pc, o, key, IsLive(o), Members(o, key[1]))]
  /\ asks' = asks + 1
  /\ UNCHANGED <<dataVars, cache>>

\* The locals of a call end with it.
Ended(pc, surface) == [NoCall EXCEPT !.pc = pc, !.surface = surface]

Answered(t, surface) == calls' = [calls EXCEPT ![t] = Ended("answered", surface)]

\* find, which turns to get_list if there is nothing.
Find(t) ==
  /\ calls[t].pc = "finding"
  /\ \E id \in NewIds : cache' = CheckOwner(cache, calls[t].owner, id)
  /\ IF calls[t].key \in DOMAIN cache'.lists
     THEN Answered(t, cache'.lists[calls[t].key])
     ELSE calls' = [calls EXCEPT ![t].pc = "asked"]
  /\ UNCHANGED <<dataVars, asks>>

Look(t) ==
  /\ calls[t].pc = "asked"
  /\ \E id \in NewIds :
       LET key == calls[t].key
           c   == CheckOwner(cache, calls[t].owner, id)
           m   == Missed(c, key[1], id)
       IN IF key \in DOMAIN c.lists
          THEN cache' = c /\ Answered(t, c.lists[key])
          ELSE /\ cache' = m
               /\ calls' = [calls EXCEPT ![t].pc = "building", ![t].token = m.token,
                                         ![t].version = m.versions[key[1]]]
  /\ UNCHANGED <<dataVars, asks>>

\* _compact_member_surface, without the lock; it may raise.
Build(t) ==
  /\ calls[t].pc = "building"
  /\ \/ calls' = [calls EXCEPT ![t].pc = "built", ![t].surface = Members(calls[t].owner, calls[t].key[1])]
     \/ calls' = [calls EXCEPT ![t].pc = "failing"]
  /\ UNCHANGED <<dataVars, cache, asks>>

\* faulty: every build may be published
NeverSuperseded(c, call) == FALSE

IsSuperseded(c, call) ==
  \/ call.token # c.token
  \/ call.key[1] \notin DOMAIN c.versions
  \/ call.version # c.versions[call.key[1]]

Settle(t) ==
  /\ calls[t].pc = "built"
  /\ \E id \in NewIds :
       LET call == calls[t]
           key  == call.key
           c    == CheckOwner(cache, call.owner, id)
       IN IF cache.owner # call.owner
          THEN cache' = cache /\ calls' = [calls EXCEPT ![t].pc = "answering"]
          ELSE IF key \in DOMAIN c.lists
          THEN cache' = c /\ calls' = [calls EXCEPT ![t].pc = "answering", ![t].surface = c.lists[key]]
          ELSE IF IsSuperseded(c, call)
          THEN cache' = c /\ calls' = [calls EXCEPT ![t].pc = "retrying", ![t].surface = NoMembers]
          ELSE /\ cache' = Published(c, key, call.surface)
               /\ calls' = [calls EXCEPT ![t].pc = "answering"]
  /\ UNCHANGED <<dataVars, asks>>

\* The finally block.
Finish(t) ==
  /\ calls[t].pc \in {"answering", "failing", "retrying"}
  /\ cache' = FinishBuild(cache, calls[t].token, calls[t].key[1])
  /\ calls' = [calls EXCEPT ![t] =
       CASE @.pc = "answering" -> Ended("answered", @.surface)
         [] @.pc = "failing"   -> Ended("failed", NoMembers)
         [] @.pc = "retrying"  -> [@ EXCEPT !.pc = "asked", !.token = NoId, !.version = NoId]]
  /\ UNCHANGED <<dataVars, asks>>

-----------------------------------------------------------------------------
(* The daemon hands the cache over, or retires what it holds.              *)

\* rebuild_surface_for_models, and an index that a reindex left as it was.
Rebuild ==
  /\ \E p \in Owners, labels \in SUBSET Labels, id \in NewIds :
       /\ Made(p)
       /\ Reindexed(p, labels)
       /\ cache' = ForceOwner(cache, Owner(Len(data'), 1), p, labels, id)
  /\ UNCHANGED <<calls, asks>>

\* rebind_member_surface_cache_runtime
RebindRuntime ==
  /\ \E s \in DOMAIN data, id \in NewIds :
       /\ Recatalogued(s)
       /\ cache' = IF cache.owner = Owner(s, view[s])
                   THEN SetOwner(cache, Owner(s, view'[s]), cache.ready # registry, registry, id)
                   ELSE cache
  /\ UNCHANGED <<calls, asks>>

\* install_runtime_members
Install ==
  /\ \E s \in DOMAIN data, id \in NewIds : \E v \in {view[s], view[s] + 1} :
       /\ Installed(s, v)
       /\ cache' = IF cache.owner \in {Owner(s, v), Owner(s, view[s])}
                   THEN SetOwner(cache, Owner(s, v), TRUE, registry, id)
                   ELSE cache
  /\ UNCHANGED <<calls, asks>>

\* invalidate_model, for a model that changed in place.
InvalidateModel ==
  /\ cache.owner # NoOwner
  /\ \E l \in Labels, id \in NewIds :
       Touched(cache.owner.index, l) /\ cache' = Invalidated(cache, {l}, id)
  /\ UNCHANGED <<calls, asks>>

Prewarm == RegistryReady /\ UNCHANGED <<cache, calls, asks>>

Step(t) == Find(t) \/ Look(t) \/ Build(t) \/ Settle(t) \/ Finish(t)

Next ==
  \/ \E t \in Threads : Ask(t) \/ Step(t)
  \/ Rebuild \/ RebindRuntime \/ Install \/ InvalidateModel \/ Prewarm

Spec == Init /\ [][Next]_vars

Fairness == \A t \in Threads : WF_vars(Step(t))

FairSpec == Spec /\ Fairness

-----------------------------------------------------------------------------
(* Properties.                                                             *)

\* A model is invalidated by its list of keys: the list is what is cached for
\* it, no more and no less, whatever else is published or cleared.
KeysAreTracked ==
  \A l \in Labels :
    {k \in DOMAIN cache.lists : k[1] = l}
      = IF l \in DOMAIN cache.keysByModel THEN cache.keysByModel[l] ELSE {}

\* No thread finds members older than a change that was already handed to the
\* cache: what is cached for an owner that is still the daemon's is what a
\* computation for it would give now, with the registry the cache was filled
\* with.  Edits, installed captures and invalidations that happen during a
\* computation never leave its result behind (get_list, force_owner,
\* rebind_runtime, install_runtime_members).
CachedIsCurrent ==
  cache.owner # NoOwner /\ IsLive(cache.owner) =>
    \A k \in DOMAIN cache.lists :
      cache.lists[k] = [stamp |-> data[cache.owner.index][k[1]], live |-> cache.ready]

Building(token, label) ==
  {t \in Threads : /\ calls[t].pc \in {"building", "built", "answering", "failing", "retrying"}
                   /\ calls[t].token = token /\ calls[t].key[1] = label}

\* Each build under way is counted once under its token, and its end finds it
\* there, also when the cache changed hands or the build raised meanwhile.
BuildsAreCounted ==
  /\ \A b \in DOMAIN cache.inflight : cache.inflight[b] = Cardinality(Building(b[1], b[2])) /\ cache.inflight[b] > 0
  /\ \A t \in Threads : calls[t].pc \in {"building", "built", "answering", "failing", "retrying"} =>
       <<calls[t].token, calls[t].key[1]>> \in DOMAIN cache.inflight

\* Nothing is left behind for a model without cached keys once its builds are
\* over ("Only active builds can leave version entries without cached keys").
VersionsAreOwned ==
  \A l \in DOMAIN cache.versions :
    l \in DOMAIN cache.keysByModel \/ <<cache.token, l>> \in DOMAIN cache.inflight

\* The cache is invisible: every answer is one that a computation during the
\* request could have given.
Request(call) ==
  [state |-> IF call.pc \in {"idle", "answered", "failed"} THEN call.pc ELSE "asked",
   owner |-> call.owner, label |-> IF call.key = <<>> THEN "" ELSE call.key[1],
   live |-> call.asked, since |-> call.since,
   answer |-> IF call.pc = "answered" THEN call.surface ELSE NoMembers]

Answers == INSTANCE MemberAnswers WITH requests <- [t \in Threads |-> Request(calls[t])]

AnswersSpec == Answers!Spec

\* A call ends: it computes again only when something changed meanwhile, never
\* because of what other threads look up.
CallsEnd == \A t \in Threads : calls[t].pc = "finding" \/ calls[t].pc = "asked" ~> calls[t].pc \in {"answered", "failed"}

=============================================================================
