------------------------ MODULE AnalysisPipelineProofs ------------------------
(***************************************************************************)
(* What the daemon sends after an edit and what it rebuilds when the       *)
(* runtime members are refreshed, for any files, edits, runtime and kinds  *)
(* of edit.                                                                *)
(*                                                                         *)
(* ClientFollows is inductive as it stands: a slice changes its table only *)
(* under the keys it names (SliceDelta), and so does the fallback it       *)
(* rebuilds (FallbackDelta).                                               *)
(*                                                                         *)
(* RefreshCovers needs one invariant, IndexOK: every operation that makes  *)
(* an index gives it the fields of an index.  A refresh then changes its   *)
(* snapshot and nothing else, so that the models, and the keys under which *)
(* the tables hold them, are the same before and after (RefreshedFact,     *)
(* SameGraphLabels, SameConcrete), and every key that the old table lacks  *)
(* is among what the refresh rebuilds (RefreshCoversAll).                  *)
(***************************************************************************)
EXTENDS AnalysisPipeline, TLAPS

-----------------------------------------------------------------------------
(* Every step leaves the client with what the daemon has.                  *)

\* The candidates with a label are read off the candidates alone.
LEMMA SameByLabel ==
  ASSUME NEW x, NEW y, x.candidates = y.candidates, NEW l
  PROVE  ByLabel(x, l) = ByLabel(y, l)
BY DEF ByLabel

\* So are the graph's labels for the labels of the sources.
LEMMA SameGraphLabels ==
  ASSUME NEW x, NEW y, x.candidates = y.candidates, NEW g
  PROVE  GraphLabels(x, g) = GraphLabels(y, g)
<1> DEFINE Joined(c) == {l \in DOMAIN g.nodes : g.nodes[l].module = c.module /\ g.nodes[l].name = c.name}
           split(z) == {c \in ToSet(z.candidates) : Joined(c) # {} /\ c.label \notin Joined(c)}
           to(z) == [l \in {c.label : c \in split(z)} |-> CHOOSE k \in Joined(ByLabel(z, l)) : TRUE]
<1>1. split(x) = split(y)
  OBVIOUS
<1>2. \A l : Joined(ByLabel(x, l)) = Joined(ByLabel(y, l))
  BY SameByLabel
<1>3. to(x) = to(y)
  <2> HIDE DEF Joined, split
  <2>1. QED
    BY <1>1, <1>2
<1>4. GraphLabels(x, g) = Once(to(x)) /\ GraphLabels(y, g) = Once(to(y))
  BY DEF GraphLabels
<1>5. QED
  BY <1>3, <1>4

\* The slice of an edit differs from the table it is made from only under the
\* keys it names (_rebuild_surface_slice): applied, it gives the new table.
LEMMA SliceDelta ==
  ASSUME NEW x0, NEW x, NEW run, NEW g0, NEW g, NEW files, NEW labels, NEW source, NEW old, NEW slice,
         slice = RebuildSlice(x0, x, run, g0, g, files, labels, source, old)
  PROVE  Applied(old, slice.surface, slice.keys) = slice.surface
<1> DEFINE was == GraphLabels(x0, g0)
           now == GraphLabels(x, g)
           Same(l) ==
             /\ Key(was, l) = Key(now, l)
             /\ Key(now, l) \in DOMAIN old
             /\ Key(was, l) \in DOMAIN g0.nodes
             /\ Key(now, l) \in DOMAIN g.nodes
             /\ g0.nodes[Key(was, l)] = g.nodes[Key(now, l)]
             /\ Get(g0.fields, Key(was, l), <<>>) = Get(g.fields, Key(now, l), <<>>)
           chosen == labels \ {l \in labels \ source : Same(l)}
           keys == {Key(was, l) : l \in chosen} \cup {Key(now, l) : l \in chosen}
           merged == RebuildSurface(x, run, g, files, chosen, old)
           kept == DOMAIN merged \ (keys \ SurfaceKeys(x, g))
<1>1. slice = [surface |-> [k \in kept |-> merged[k]], keys |-> keys]
  BY DEF RebuildSlice, With
<1> HIDE DEF chosen
<1>2. ASSUME NEW k, k \notin keys
      PROVE  /\ k \in DOMAIN merged <=> k \in DOMAIN old
             /\ k \in DOMAIN old => merged[k] = old[k]
  BY <1>2 DEF RebuildSurface, Over
<1> HIDE DEF keys, merged
<1>3. slice.surface = [k \in kept |-> merged[k]] /\ slice.keys = keys
  BY <1>1
<1>4. QED
  BY <1>2, <1>3 DEF Applied

\* The rebuilt fallback differs from the old one only under the labels of the
\* edit, its keys and the nodes they affect (_compute_reindex_from_static).
LEMMA FallbackDelta ==
  ASSUME NEW x, NEW g, NEW all, NEW old, NEW labels, NEW keys, NEW new,
         new = RebuildFallback(x, g, all, old, labels, keys)
  PROVE  Applied(old, new, labels \cup keys \cup AffectedNodes(x, g, labels)) = new
BY DEF RebuildFallback, Applied, Over

\* The concrete models are read off the candidates alone.
LEMMA SameConcrete ==
  ASSUME NEW x, NEW y, x.candidates = y.candidates
  PROVE  Concrete(x) = Concrete(y)
BY DEF Concrete

\* The daemon answers an edit, a loaded surface and a refresh with what it
\* changed, and the client that applies it has the daemon's table and fallback.
THEOREM ClientFollowsHolds == Spec => []ClientFollows
<1>1. Init => ClientFollows
  BY DEF Init, ClientFollows
<1>2. ClientFollows /\ [Next]_vars => ClientFollows'
  <2> SUFFICES ASSUME ClientFollows, [Next]_vars PROVE ClientFollows'
    OBVIOUS
  <2> USE DEF ClientFollows
  <2>1. ASSUME NEW f \in Files, Save(f) PROVE ClientFollows'
    BY <2>1 DEF Save
  <2>2. ASSUME NEW f \in Files, ReindexFile(f) PROVE ClientFollows'
    <3>1. PICK done, source, x :
            IF source = {} THEN UNCHANGED <<graph, surface, fallback, client>>
            ELSE \E labels \in {WithNeighbours(x, source)} :
               \E g \in {RebuildGraph(graph, index, x, rt, disk, labels, flip) : flip \in Orders} :
               \E slice \in {RebuildSlice(index, x, rt, graph, g, disk, labels, source, surface)} :
                 /\ graph' = g
                 /\ surface' = slice.surface
                 /\ fallback' = RebuildFallback(x, g, slice.surface, fallback, labels, slice.keys)
                 /\ client' = [surface |-> Applied(client.surface, slice.surface, slice.keys),
                               fallback |-> Applied(client.fallback, fallback',
                                 labels \cup slice.keys \cup AffectedNodes(x, g, labels))]
      BY <2>2 DEF ReindexFile
    <3>2. CASE source = {}
      BY <3>1, <3>2
    <3>3. CASE source # {}
      <4>1. PICK labels, g, slice :
              /\ slice = RebuildSlice(index, x, rt, graph, g, disk, labels, source, surface)
              /\ surface' = slice.surface
              /\ fallback' = RebuildFallback(x, g, slice.surface, fallback, labels, slice.keys)
              /\ client' = [surface |-> Applied(client.surface, slice.surface, slice.keys),
                            fallback |-> Applied(client.fallback, fallback',
                              labels \cup slice.keys \cup AffectedNodes(x, g, labels))]
        BY <3>1, <3>3
      <4>2. Applied(surface, slice.surface, slice.keys) = slice.surface
        BY <4>1, SliceDelta
      <4>3. Applied(fallback, fallback', labels \cup slice.keys \cup AffectedNodes(x, g, labels)) = fallback'
        BY <4>1, FallbackDelta
      <4>4. QED
        BY <4>1, <4>2, <4>3
    <3>4. QED
      BY <3>2, <3>3
  <2>3. CASE RuntimeReady
    BY <2>3 DEF RuntimeReady, Publish
  <2>4. CASE LoadSurface
    BY <2>4 DEF LoadSurface, Publish
  <2>5. CASE RefreshMembers
    BY <2>5 DEF RefreshMembers, Publish
  <2>6. CASE RefreshRejected
    BY <2>6 DEF RefreshRejected
  <2>7. CASE UNCHANGED vars
    BY <2>7 DEF vars
  <2>8. QED
    BY <2>1, <2>2, <2>3, <2>4, <2>5, <2>6, <2>7 DEF Next
<1>3. QED
  BY <1>1, <1>2, PTL DEF Spec

-----------------------------------------------------------------------------

(* A refresh covers every model.                                           *)

\* A record with the fields of an index, and no other.
IsIndex(x) == DOMAIN x = DOMAIN EmptyIndex

\* Resolving the fields leaves an index an index (StaticIndex.__post_init__).
LEMMA ResolvedIndex ==
  ASSUME NEW x, IsIndex(x), NEW files, NEW source, NEW kept
  PROVE  IsIndex(Resolved(x, files, source, kept))
<1>1. PICK a, b, c, d, e, f, h :
        Resolved(x, files, source, kept) =
          [x EXCEPT !.direct = a, !.indep = b, !.forward = c, !.reverse = d, !.fields = e, !.sources = f,
                    !.changed = h]
  BY DEF Resolved, With
<1>2. QED
  BY <1>1 DEF IsIndex

\* So does rebuilding it from its modules (_static_index_from_modules).
LEMMA GeneralIsIndex ==
  ASSUME NEW x, IsIndex(x), NEW files, NEW source
  PROVE  IsIndex(GeneralIndex(x, files, source))
<1>1. PICK a, b, c : GeneralIndex(x, files, source) =
         Resolved(WithBases([x EXCEPT !.modules = a, !.candidates = b, !.direct = <<>>, !.fresh = c]),
                  files, source, {})
  BY DEF GeneralIndex, With
<1>2. IsIndex(WithBases([x EXCEPT !.modules = a, !.candidates = b, !.direct = <<>>, !.fresh = c]))
  BY DEF IsIndex, WithBases
<1>3. QED
  BY <1>1, <1>2, ResolvedIndex

\* So does the short way of an edit of plain fields (_resolve_fields).
LEMMA ScalarIndex ==
  ASSUME NEW x, IsIndex(x), NEW files, NEW source, NEW scalar
  PROVE  IsIndex(ScalarResolved(x, files, source, scalar))
<1>1. PICK a, k, b, c, d, e, f, h :
        \/ ScalarResolved(x, files, source, scalar) = Resolved([x EXCEPT !.direct = a], files, source, k)
        \/ ScalarResolved(x, files, source, scalar) =
             [x EXCEPT !.direct = a, !.indep = b, !.forward = c, !.reverse = d, !.fields = e, !.sources = f,
                       !.changed = h]
  BY DEF ScalarResolved, With
<1>2. IsIndex([x EXCEPT !.direct = a])
  BY DEF IsIndex
<1>3. IsIndex(Resolved([x EXCEPT !.direct = a], files, source, k))
  BY <1>2, ResolvedIndex
<1>4. IsIndex([x EXCEPT !.direct = a, !.indep = b, !.forward = c, !.reverse = d, !.fields = e, !.sources = f,
                       !.changed = h])
  BY DEF IsIndex
<1>5. QED
  BY <1>1, <1>3, <1>4

\* The first scan of the workspace gives an index (build_static_index).
LEMMA BuildIsIndex == ASSUME NEW files PROVE IsIndex(Build(files))
<1>1. PICK a, b, c, d, e, f, h : Build(files) =
         [GeneralIndex([EmptyIndex EXCEPT !.modules = a, !.order = b, !.bad = c, !.shadowed = d,
                          !.origins = e, !.count = f, !.stats = h], files, EmptyIndex) EXCEPT !.fresh = {}]
  BY DEF Build, With
<1>2. IsIndex([EmptyIndex EXCEPT !.modules = a, !.order = b, !.bad = c, !.shadowed = d,
                 !.origins = e, !.count = f, !.stats = h])
  BY DEF IsIndex
<1>3. QED
  BY <1>1, <1>2, GeneralIsIndex DEF IsIndex

\* Whichever way an edit is indexed, the result is one (reindex_single_file).
LEMMA ReindexIsIndex ==
  ASSUME NEW x, IsIndex(x), NEW files, NEW f
  PROVE  IsIndex(Reindex(x, files, f).index)
<1> DEFINE m == f.module
           dependents == ConstructorDependents(x, m)
           slot == Slot(x, files, f)
           base == Placed(x, m, slot.news)
           start ==
             [base EXCEPT !.bad = slot.bad, !.shadowed = slot.shadowed,
                          !.fresh = IF slot.kept THEN {} ELSE {m},
                          !.count = Cardinality(DOMAIN base.modules) + Cardinality(slot.bad)
                                      + Cardinality(slot.shadowed)]
           reused ==
             [start EXCEPT !.direct = [n \in (DOMAIN x.direct \cap DOMAIN start.modules)
                                               \ (dependents \cup {m}) |-> x.direct[n]]]
           same == ~slot.failed /\ ResolutionUnchanged(slot.olds, slot.news)
           scalar == ScalarScope(start, slot, f, files, dependents)
           patched ==
             IF ~slot.failed /\ dependents = {} /\ ModelsUnchanged(slot.olds, slot.news)
             THEN [start EXCEPT !.changed = <<{}>>]
             ELSE IF same /\ IsScalarEdit(reused, x, scalar) THEN ScalarResolved(reused, files, x, scalar)
             ELSE IF same THEN Resolved(reused, files, x, x.indep)
             ELSE GeneralIndex(start, files, x)
<1>1. Reindex(x, files, f).index =
        [patched EXCEPT !.stats = StatisticsAfter(x, patched.modules, m),
                        !.edges = KeptEdges(x, patched.modules, m), !.fresh = {}]
  BY DEF Reindex, With
<1>2. IsIndex(base)
  BY DEF IsIndex, Placed
<1>3. IsIndex(start)
  <2> HIDE DEF base, slot
  <2>1. QED
    BY <1>2 DEF IsIndex
<1>4. IsIndex(reused)
  <2> HIDE DEF start, slot, dependents
  <2>1. QED
    BY <1>3 DEF IsIndex
<1>5. IsIndex([start EXCEPT !.changed = <<{}>>])
  <2> HIDE DEF start
  <2>1. QED
    BY <1>3 DEF IsIndex
<1> HIDE DEF start, reused, slot, dependents, same, scalar
<1>6. IsIndex(patched)
  BY <1>3, <1>4, <1>5, ScalarIndex, ResolvedIndex, GeneralIsIndex
<1> HIDE DEF patched
<1>7. QED
  BY <1>1, <1>6 DEF IsIndex

\* What the rest of the argument needs of a refresh: the index changes in its
\* snapshot alone, and the slice it builds takes in every concrete model that
\* the old table, all, has no entry for.
IsRefresh(x, files, all, done) ==
  \E snapshot, worker, labels :
    /\ done.index = [x EXCEPT !.members = snapshot]
    /\ done.slice = BuildSurface(done.index, worker, done.graph, files, labels)
    /\ \/ labels = Labels(x)
       \/ {l \in Concrete(x) : Key(GraphLabels(x, done.graph), l) \notin DOMAIN all} \subseteq labels

\* A refresh is one: all models when there was no snapshot, else the moved ones
\* and those whose surface is not as before, or missing (changed_runtime_surface_labels).
LEMMA RefreshedFact ==
  ASSUME NEW x, NEW run, NEW g, NEW files, NEW all, NEW fresh, NEW flip
  PROVE  IsRefresh(x, files, all, Refreshed(x, run, g, files, all, fresh, flip))
<1> DEFINE worker   == [run EXCEPT !.registry = fresh.registry]
           previous == SnapshotOf(x.members)
           models   == ChangedModels(run, fresh)
           Captured(g2) == [CaptureMembers(x, worker, g2) EXCEPT !.models = models]
           first    == Captured(g)
           owned    == [x EXCEPT !.members = <<first>>]
           moved    == ReconciledLabels(owned, g, previous, models)
           now      == IF moved = {} THEN g ELSE RebuildGraph(g, owned, owned, worker, files, moved, flip)
           snapshot == IF RuntimeOnly(now) \subseteq DOMAIN g.nodes THEN first ELSE Captured(now)
           renewed  == [x EXCEPT !.members = <<snapshot>>]
           labels   == IF x.members = <<>> THEN Labels(x)
                       ELSE moved \cup ChangedSurfaces(x, now, previous, snapshot, DOMAIN all)
           done     == Refreshed(x, run, g, files, all, fresh, flip)
<1>1. done = [index |-> renewed, graph |-> now, slice |-> BuildSurface(renewed, worker, now, files, labels)]
  BY DEF Refreshed, With
<1> HIDE DEF now, snapshot, worker, moved, models, previous
<1> HIDE DEF done
<1>2. /\ done.index = renewed /\ done.graph = now
      /\ done.slice = BuildSurface(renewed, worker, now, files, labels)
  BY <1>1
<1>3. \/ labels = Labels(x)
      \/ {l \in Concrete(x) : Key(GraphLabels(x, now), l) \notin DOMAIN all} \subseteq labels
  BY DEF ChangedSurfaces
<1> HIDE DEF labels
<1>4. IsRefresh(x, files, all, done)
  BY <1>2, <1>3 DEF IsRefresh
<1>5. QED
  BY <1>4 DEF done

\* The old table patched with the slice covers the models there are.
LEMMA RefreshCoversAll ==
  ASSUME NEW x, IsIndex(x), NEW run, NEW g, NEW files, NEW all, NEW fresh, NEW flip, NEW done,
         done = Refreshed(x, run, g, files, all, fresh, flip)
  PROVE  DOMAIN Composed(x, done.graph, all, done.slice) = SurfaceKeys(x, done.graph)
<1>1. IsRefresh(x, files, all, done)
  BY RefreshedFact
<1>2. PICK snapshot, worker, labels :
           /\ done.index = [x EXCEPT !.members = snapshot]
           /\ done.slice = BuildSurface(done.index, worker, done.graph, files, labels)
           /\ \/ labels = Labels(x)
              \/ {l \in Concrete(x) : Key(GraphLabels(x, done.graph), l) \notin DOMAIN all} \subseteq labels
  BY <1>1 DEF IsRefresh
<1>3. done.index.candidates = x.candidates
  BY <1>2 DEF IsIndex, EmptyIndex
<1> DEFINE to == GraphLabels(x, done.graph)
<1>4. Concrete(done.index) = Concrete(x) /\ GraphLabels(done.index, done.graph) = to
  BY <1>3, SameConcrete, SameGraphLabels
<1>5. DOMAIN done.slice = {Key(to, l) : l \in Concrete(x) \cap labels}
  <2>1. DOMAIN BuildSurface(done.index, worker, done.graph, files, labels) =
          {Key(GraphLabels(done.index, done.graph), l) : l \in Concrete(done.index) \cap labels}
    BY DEF BuildSurface
  <2> HIDE DEF to
  <2>2. QED
    BY <1>2, <1>4, <2>1
<1>6. Concrete(x) \subseteq Labels(x)
  BY DEF Concrete, Labels, ToSet
<1> HIDE DEF to
<1>7. SurfaceKeys(x, done.graph) = {Key(to, l) : l \in Concrete(x)}
  BY DEF SurfaceKeys, to
<1>8. SurfaceKeys(x, done.graph) \subseteq DOMAIN done.slice \cup DOMAIN all
  BY <1>2, <1>5, <1>6, <1>7 DEF to
<1>9. DOMAIN done.slice \subseteq SurfaceKeys(x, done.graph)
  BY <1>5, <1>7
<1>10. QED
  BY <1>8, <1>9 DEF Composed, Over

\* The inductive invariant: the daemon's index is an index.
IndexOK == IsIndex(index)

\* Every step keeps it.
LEMMA IndexStep == ASSUME IsIndex(index), [Next]_vars PROVE IsIndex(index')
<1>1. ASSUME NEW f \in Files, Save(f) PROVE IsIndex(index')
  BY <1>1 DEF Save
<1>2. ASSUME NEW f \in Files, ReindexFile(f) PROVE IsIndex(index')
  <2>1. PICK source : index' = Invalidated(index, Reindex(index, disk, f).index, rt, source)
    BY <1>2 DEF ReindexFile
  <2>2. IsIndex(Reindex(index, disk, f).index)
    BY ReindexIsIndex
  <2>3. QED
    BY <2>1, <2>2 DEF Invalidated, IsIndex
<1>3. CASE RuntimeReady
  BY <1>3 DEF RuntimeReady
<1>4. CASE LoadSurface
  BY <1>4 DEF LoadSurface, IsIndex
<1>5. CASE RefreshMembers
  <2>1. PICK flip : \/ index' = Refreshed(index, rt, graph, disk, surface, anew.runtime, flip).index
                    \/ index' = index
    BY <1>5 DEF RefreshMembers
  <2>2. IsRefresh(index, disk, surface, Refreshed(index, rt, graph, disk, surface, anew.runtime, flip))
    BY RefreshedFact
  <2>3. PICK snapshot : Refreshed(index, rt, graph, disk, surface, anew.runtime, flip).index
                          = [index EXCEPT !.members = snapshot]
    BY <2>2 DEF IsRefresh
  <2>4. QED
    BY <2>1, <2>3 DEF IsIndex
<1>6. CASE RefreshRejected
  BY <1>6 DEF RefreshRejected
<1>7. CASE UNCHANGED vars
  BY <1>7 DEF vars
<1>8. QED
  BY <1>1, <1>2, <1>3, <1>4, <1>5, <1>6, <1>7 DEF Next

\* The daemon starts from a scan.
LEMMA IndexStart == Init => IsIndex(index)
<1>1. \A files : Anew(files).index = Build(files)
  BY DEF Anew, With
<1>2. QED
  BY <1>1, BuildIsIndex DEF Init

\* A refresh that finds a runtime, and no file edited since, succeeds: the table
\* it composes has every model, so the check of its keys never rejects it.
THEOREM RefreshCoversHolds == Spec => RefreshCovers
<1>1. IndexOK /\ [Next]_vars
        => [members = "pending" /\ members' = "failed" => dirty # {} \/ ~anew.runtime.ready]_vars
  <2> SUFFICES ASSUME IndexOK, Next, members = "pending", members' = "failed"
               PROVE  dirty # {} \/ ~anew.runtime.ready
    OBVIOUS
  <2>1. ASSUME NEW f \in Files, Save(f) PROVE FALSE
    BY <2>1 DEF Save
  <2>2. ASSUME NEW f \in Files, ReindexFile(f) PROVE FALSE
    BY <2>2 DEF ReindexFile
  <2>3. CASE RuntimeReady
    BY <2>3 DEF RuntimeReady
  <2>4. CASE LoadSurface
    BY <2>4 DEF LoadSurface
  <2>5. CASE RefreshMembers
    <3>1. PICK done, all, flip :
            /\ done = Refreshed(index, rt, graph, disk, surface, anew.runtime, flip)
            /\ all = Composed(index, done.graph, surface, done.slice)
            /\ DOMAIN all # SurfaceKeys(index, done.graph)
      BY <2>5 DEF RefreshMembers
    <3>2. QED
      BY <3>1, RefreshCoversAll DEF IndexOK
  <2>6. CASE RefreshRejected
    BY <2>6 DEF RefreshRejected
  <2>7. QED
    BY <2>1, <2>2, <2>3, <2>4, <2>5, <2>6 DEF Next
<1>2. Init => IndexOK
  BY IndexStart DEF IndexOK
<1>3. IndexOK /\ [Next]_vars => IndexOK'
  BY IndexStep DEF IndexOK
<1>4. QED
  BY <1>1, <1>2, <1>3, PTL DEF Spec, RefreshCovers

=============================================================================
