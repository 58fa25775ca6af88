--------------------------- MODULE AnalysisPipeline ---------------------------
(***************************************************************************)
(* The analysis of a workspace while its files are edited: the static      *)
(* index, the runtime inspection, the model graph, the surface and the     *)
(* static fallback of the daemon (server/app.py), and the copy of the last *)
(* two that the client keeps by applying the deltas it is sent.            *)
(*                                                                         *)
(* A save changes a file; its reindex comes later and may find other files *)
(* newer than what the index knows of them.  The daemon starts without a   *)
(* runtime and without a surface.  The runtime inspection may become ready *)
(* at any time, with the sources of that time, and is never renewed: a     *)
(* refresh of the runtime members follows every edit.  The whole surface   *)
(* is built once, some time after the runtime; until then there are only   *)
(* the entries of edited models, and the fallback stands for the others.   *)
(* The state lock, the retries and the order in which answers reach the    *)
(* client are those of StateGeneration and SurfaceDelivery: here a         *)
(* reindex, a load and a refresh are atomic, and each is left out if it    *)
(* would be retried.                                                       *)
(***************************************************************************)
EXTENDS RuntimeMembers

CONSTANTS
  Texts,           \* file -> the texts its editor may save
  InitialDisk,     \* the workspace when the daemon first scans it
  MaxSaves,        \* bound on the number of saves
  Orders           \* the orders a set of names may be walked in

VARIABLES
  disk,            \* file -> its text
  dirty,           \* the files saved but not yet reindexed
  index,           \* static_index
  rt,              \* runtime_inspection, and the process's Django registry
  graph,           \* model_graph
  surface,         \* _last_surface_index
  extent,          \* what filled it: "edits", a "refresh" or the "load"
  fallback,        \* _last_static_fallback
  members,         \* the refresh of the members: "idle", "pending" or "failed"
  client,          \* the client's [surface, fallback]
  edited,          \* _source_snapshot_dirty: a reindex was published
  saves,           \* how often a file was saved
  anew             \* auxiliary, a function of disk: the index and the runtime
                   \* of a process that starts on the files as they are

vars == <<disk, dirty, index, rt, graph, surface, extent, fallback, members, client, edited, saves, anew>>

\* The client is sent a surface and a fallback to replace its own.
Publish(g, all) ==
  /\ graph' = g
  /\ surface' = all
  /\ fallback' = BuildFallback(g, all)
  /\ client' = [surface |-> all, fallback |-> fallback']

\* What such a process reads; without a runtime if Django cannot import them.
Anew(files) ==
  With(Build(files), LAMBDA x :
    [index |-> x, runtime |-> IF Importable(x, files) THEN Inspection(x, files) ELSE NoRuntime])

Init ==
  /\ disk = InitialDisk
  /\ dirty = {}
  /\ anew = Anew(disk)
  /\ index = anew.index
  /\ rt = NoRuntime
  /\ graph = BuildGraph(index, rt, disk)
  /\ surface = <<>>
  /\ extent = "edits"
  /\ fallback = BuildFallback(graph, surface)
  /\ members = "idle"
  /\ client = [surface |-> surface, fallback |-> fallback]
  /\ edited = FALSE
  /\ saves = 0

Save(f) ==
  /\ saves < MaxSaves
  /\ \E t \in Texts[f] \ {disk[f]} : disk' = [disk EXCEPT ![f] = t]
  /\ dirty' = dirty \cup {f}
  /\ anew' = Anew(disk')
  /\ saves' = saves + 1
  /\ UNCHANGED <<index, rt, graph, surface, extent, fallback, members, client, edited>>

-----------------------------------------------------------------------------
(* The reindex of one saved file.                                          *)

EditedModules(x, y, f) ==
  {m \in {f.module} : \E z \in {x, y} : m \in DOMAIN z.modules /\ FileOf(z.modules[m]) = f}

ChangedCandidates(x, y) ==
  {l \in Labels(x) \cup Labels(y) :
     l \in Labels(x) \cap Labels(y) => ByLabel(x, l) # ByLabel(y, l)}

\* The models whose source, or the source of a base, may have changed.
SourceAffected(x, y, done, f) ==
  LET here   == EditedModules(x, y, f)
      direct == done.old \cup done.new \cup SourceDependents(x, here)
                  \cup SourceDependents(y, here) \cup y.changed[1] \cup ChangedCandidates(x, y)
      below == direct \cup InheritanceDependents(x, direct)
  IN below \cup InheritanceDependents(y, below)

\* With the models that have a relation to one of them.
WithNeighbours(y, labels) ==
  labels \cup UNION {Get(y.sources, t, {}) : t \in labels}

\* faulty: removed keys stay in the copy
OnlyReplaced(copy, now, keys) ==
  [k \in DOMAIN copy \cup (DOMAIN now \cap keys) |-> IF k \in keys \cap DOMAIN now THEN now[k] ELSE copy[k]]

\* The client replaces what the delta names and drops what is gone.
Applied(copy, now, keys) ==
  [k \in (DOMAIN copy \ keys) \cup (DOMAIN now \cap keys) |-> IF k \in keys THEN now[k] ELSE copy[k]]

ReindexFile(f) ==
  /\ f \in dirty
  /\ dirty' = dirty \ {f}
  /\ \E done \in {Reindex(index, disk, f)} :
     \E source \in {SourceAffected(index, done.index, done, f)} :
     \E x \in {Invalidated(index, done.index, rt, source)} :
       /\ index' = x
       /\ IF source = {} THEN UNCHANGED <<graph, surface, fallback, client>>
          ELSE \E labels \in {WithNeighbours(x, source)} :
               \E g \in {RebuildGraph(graph, index, x, rt, disk, labels, flip) : flip \in Orders} :
               \E slice \in {RebuildSlice(index, x, rt, graph, g, disk, labels, source, surface)} :
                 /\ graph' = g
                 /\ surface' = slice.surface
                 /\ fallback' = RebuildFallback(x, g, slice.surface, fallback, labels, slice.keys)
                 /\ client' = [surface |-> Applied(client.surface, slice.surface, slice.keys),
                               fallback |-> Applied(client.fallback, fallback',
                                 labels \cup slice.keys \cup AffectedNodes(x, g, labels))]
  /\ members' = IF rt.ready THEN "pending" ELSE members
  /\ edited' = TRUE
  /\ UNCHANGED <<disk, rt, extent, saves, anew>>

-----------------------------------------------------------------------------
(* The runtime and the whole surface.                                      *)

\* The background inspection ends; its Django imported the sources of now.
\* What reindexes put in the surface before knew no runtime: it is dropped.
RuntimeReady ==
  /\ ~rt.ready
  /\ anew.runtime.ready
  /\ rt' = anew.runtime
  /\ Publish(BuildGraph(index, rt', disk), <<>>)
  /\ members' = IF edited THEN "pending" ELSE members
  /\ UNCHANGED <<disk, dirty, index, extent, edited, saves, anew>>

\* The idle load of the whole surface; before the first edit it also captures
\* the members of the running process.
LoadSurface ==
  /\ rt.ready
  /\ extent # "load"
  /\ extent' = "load"
  /\ index' = IF edited THEN index ELSE [index EXCEPT !.members = <<CaptureMembers(index, rt, graph)>>]
  /\ Publish(graph, BuildSurface(index', rt, graph, disk, Labels(index)))
  /\ UNCHANGED <<disk, dirty, rt, members, edited, saves, anew>>

\* A refresh commits only while every saved file is indexed.
RefreshMembers ==
  /\ members = "pending"
  /\ dirty = {}
  /\ anew.runtime.ready
  /\ \E done \in {Refreshed(index, rt, graph, disk, surface, anew.runtime, flip) : flip \in Orders} :
       \E all \in {Composed(index, done.graph, surface, done.slice)} :
         IF DOMAIN all # SurfaceKeys(index, done.graph)
         THEN /\ members' = "failed"
              /\ UNCHANGED <<index, graph, surface, extent, fallback, client>>
         ELSE /\ members' = "idle"
              /\ index' = done.index
              /\ extent' = IF extent = "edits" THEN "refresh" ELSE extent
              /\ Publish(done.graph, all)
  /\ UNCHANGED <<disk, dirty, rt, edited, saves, anew>>

\* Django cannot import the sources, or they are newer than the index.
RefreshRejected ==
  /\ members = "pending"
  /\ dirty # {} \/ ~anew.runtime.ready
  /\ members' = "failed"
  /\ UNCHANGED <<disk, dirty, index, rt, graph, surface, extent, fallback, client, edited, saves, anew>>

\* Where the client's own walk over its copy ends, <<>> where it breaks off.
LocalChain(copy, label, receiver, chain) ==
  LET Step(at, name) ==
        IF at = <<>> \/ name \notin DOMAIN Get(Get(copy, at[1], <<>>), at[2], <<>>) THEN <<>>
        ELSE LET v == copy[at[1]][at[2]][name] IN <<IF v[2] = NoLabel THEN at[1] ELSE v[2], v[1]>>
  IN FoldLeft(Step, <<label, receiver>>, chain)

Next == \/ \E f \in Files : Save(f) \/ ReindexFile(f)
        \/ RuntimeReady
        \/ LoadSurface
        \/ RefreshMembers
        \/ RefreshRejected

Spec == Init /\ [][Next]_vars

-----------------------------------------------------------------------------
(* Properties.                                                             *)

SameFields(x, y) ==
  /\ ToSet(x.candidates) = ToSet(y.candidates)
  /\ DOMAIN x.fields = DOMAIN y.fields
  /\ \A l \in DOMAIN x.fields : ToSet(x.fields[l]) = ToSet(y.fields[l])

\* Once every save is reindexed, the patched index is what a new daemon would
\* read from the same files (reindex_single_file against build_static_index):
\* its models and fields, and what later edits rest on, the sources of each
\* relation target, the statistics and the unparseable and shadowed files.
IndexIsCurrent ==
  dirty = {} =>
    LET now == anew.index
    IN /\ SameFields(index, now)
       /\ index.sources = now.sources /\ index.stats = now.stats /\ index.count = now.count
       /\ index.bad = now.bad /\ index.shadowed = now.shadowed

View(g) ==
  [l \in DOMAIN g.nodes |->
     <<g.nodes[l], {[f EXCEPT !.source = ""] : f \in ToSet(Get(g.fields, l, <<>>))}, Get(g.edges, l, {})>>]

\* While no runtime is there, the patched graph is the graph of the index
\* (rebuild_model_graph_for_labels against build_model_graph).
GraphIsCurrent ==
  dirty = {} /\ ~rt.ready =>
    \E g \in {BuildGraph(index, rt, disk)} :
       View(graph) = View(g) /\ graph.byName = g.byName /\ graph.byPath = g.byPath

Fields(g) ==
  [l \in DOMAIN g.nodes |-> {<<f.name, f.target>> : f \in ToSet(Get(g.fields, l, <<>>))}]

\* When a refresh has followed the last edit, the graph has every model of a
\* new daemon with a new runtime, with its fields: what the edit overrode and
\* what the first catalogue still says never disagree for good.  Only a model
\* that the first catalogue had and the index never saw may stay.
Converged ==
  dirty = {} /\ rt.ready /\ members = "idle" =>
    \E fresh \in {Fields(BuildGraph(anew.index, anew.runtime, disk))} :
       /\ DOMAIN fresh \subseteq DOMAIN graph.nodes
       /\ \A l \in DOMAIN fresh : Fields(graph)[l] = fresh[l]
       /\ DOMAIN graph.nodes \ DOMAIN fresh \subseteq DOMAIN rt.models

\* However it was patched, the graph is one graph: a relation leads to a model
\* that is there, and a reverse accessor comes from a model that still has a
\* relation back (rebuild_model_graph_for_labels, apply_runtime_graph_delta).
RelationsArePaired ==
  dirty = {} /\ members = "idle" =>
    \A l \in DOMAIN graph.nodes : \A f \in ToSet(Get(graph.fields, l, <<>>)) :
      f.relation /\ f.target # NoLabel =>
        /\ f.target \in DOMAIN graph.nodes
        /\ f.direction = "reverse" =>
             \E b \in ToSet(Get(graph.fields, f.target, <<>>)) :
               b.relation /\ b.direction # "reverse" /\ b.target = l

\* The surface patched model by model is the surface of the graph, or the
\* part of it that was edited before the first load or refresh
\* (_rebuild_surface_slice and the refresh against build_surface_index).
SurfaceIsCurrent ==
  dirty = {} =>
    \E all \in {BuildSurface(index, rt, graph, disk, Labels(index))} :
       /\ \A k \in DOMAIN surface : k \in DOMAIN all /\ surface[k] = all[k]
       /\ extent # "edits" => DOMAIN surface = DOMAIN all

\* So is the static fallback, once a refresh has followed the last edit: until
\* then it may lack what only the runtime knows of an edited label.
FallbackIsCurrent == dirty = {} /\ members = "idle" => fallback = BuildFallback(graph, surface)

\* The deltas leave the client with what the daemon has.
ClientFollows == client = [surface |-> surface, fallback |-> fallback]

\* What the daemon answers for one member is what the client reads off its
\* copy, and a chain of two members that the client can walk by itself, from a
\* class or an instance, ends where the daemon ends it (resolve_orm_member,
\* resolve_orm_member_chain, resolveOrmMemberLocal, resolveOrmMemberChainLocal).
\* The daemon refuses a chain that asks one receiver the same member twice.
AnswersAgree ==
  dirty = {} /\ members = "idle" =>
    \A l \in DOMAIN client.surface : \A r \in DOMAIN client.surface[l] :
      \A n \in DOMAIN client.surface[l][r] :
        /\ \E item \in {ResolveMember(index, rt, graph, disk, l, r, n, NoManager)} :
             LET v == client.surface[l][r][n]
             IN item # <<>> /\ <<item[1].returns, item[1].to, item[1].kind>> = <<v[1], v[2], v[3]>>
        /\ r \in {"instance", "model_class"} =>
             \A mid \in {LocalChain(client.surface, l, r, <<n>>)} :
               \A n2 \in DOMAIN Get(Get(client.surface, mid[1], <<>>), mid[2], <<>>) :
                 \E there \in {ResolveChain(index, rt, graph, disk, <<l, r, NoManager>>, <<n, n2>>)},
                    here \in {LocalChain(client.surface, l, r, <<n, n2>>)} :
                   <<l, r, n>> # <<mid[1], mid[2], n2>> => there # <<>> /\ here = <<there[1], there[2]>>

\* A refresh of an importable workspace covers every model.
RefreshCovers == [][members = "pending" /\ members' = "failed" => dirty # {} \/ ~anew.runtime.ready]_vars

=============================================================================
