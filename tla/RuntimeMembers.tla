---------------------------- MODULE RuntimeMembers ----------------------------
(***************************************************************************)
(* The refresh of what only Django knows (server/runtime_members.py).      *)
(* After an edit a fresh process imports the sources, captures the members *)
(* of every model and the models whose catalogue changed, and patches the  *)
(* graph and the surface of the daemon with them.  Until then an edited    *)
(* model has no runtime members at all.                                    *)
(*                                                                         *)
(* A snapshot is [items, managers, complete, invalid, models]: the members *)
(* by <<label, receiver, manager>>, the manager names by label, the labels *)
(* it covers, those edited since, and the models that amend the catalogue. *)
(***************************************************************************)
EXTENDS MemberSurface

NoSnapshot == [items |-> <<>>, managers |-> <<>>, complete |-> {}, invalid |-> {}, models |-> <<>>]

SnapshotOf(members) == IF members = <<>> THEN NoSnapshot ELSE members[1]

\* Django imports the project only if every file parses and every name that
\* one file imports from another is there.
Importable(x, disk) ==
  LET Found(b) ==
        \/ b.module[1] = "django"
        \/ /\ b.module \in DOMAIN x.modules
           /\ b.symbol = "" \/ b.star \/ ResolveOrigin(x, b.module, <<b.symbol>>) # Unresolved
  IN /\ \A f \in Files : disk[f].state # "broken"
     /\ \A m \in DOMAIN x.modules : \A i \in DOMAIN x.modules[m].imports : Found(x.modules[m].imports[i])

\* Edited models lose their captured members; the others keep them.
Invalidated(x0, x, rt, labels) ==
  LET previous == SnapshotOf(Owned(x0, rt))
  IN IF ~rt.ready THEN x
     ELSE [x EXCEPT !.members = <<[previous EXCEPT !.invalid = @ \cup labels]>>]

-----------------------------------------------------------------------------
(* In the fresh process.                                                   *)

RuntimeOnly(g) == {l \in DOMAIN g.nodes : g.nodes[l].runtime /\ g.nodes[l].candidate = <<>>}

\* What the process captures for the models of the index and of the graph.
CaptureMembers(x, rt, g) ==
  LET to == GraphLabels(x, g)
      Registered(c) == {l \in DOMAIN rt.registry : rt.registry[l].module = c.module /\ l[2] = c.name}
      At(l) == IF l \notin Concrete(x) THEN l
               ELSE IF Registered(ByLabel(x, l)) # {} THEN CHOOSE r \in Registered(ByLabel(x, l)) : TRUE
               ELSE Key(to, l)
      covered == Concrete(x) \cup RuntimeOnly(g)
      live == {l \in covered : At(l) \in DOMAIN rt.registry}
      names == [l \in live |-> DOMAIN rt.registry[At(l)].managed]
      keys == UNION {{<<l, r, NoManager>> : r \in Receivers}
                       \cup {<<l, r, n>> : r \in {"manager", "queryset", "related_manager"}, n \in names[l]}
                     : l \in live}
      Items(k) == LiveItems(rt, At(k[1]), k[1], k[2], k[3])
  IN [items |-> Once([k \in {i \in keys : DOMAIN Items(i) # {}} |-> Items(k)]),
      managers |-> names, complete |-> covered, invalid |-> {}, models |-> <<>>]

\* The models whose summary is not the one of the daemon's catalogue.
ChangedModels(rt, fresh) ==
  LET changed == {l \in DOMAIN fresh.models : ~(l \in DOMAIN rt.models /\ rt.models[l] = fresh.models[l])}
  IN [l \in changed |-> fresh.models[l]]

PathOf(models, l) == <<models[l].module, l[2]>>

ByPath(models) ==
  [p \in {PathOf(models, l) : l \in DOMAIN models} |->
     LET l == CHOOSE k \in DOMAIN models : PathOf(models, k) = p IN <<l, models[l]>>]

\* faulty: runtime models are not added to the graph
NoneReconciled(x, g, previous, models) == {}

\* The labels of the graph to reconcile with the new models.
ReconciledLabels(x, g, previous, models) ==
  LET old == ByPath(previous.models)
      new == ByPath(models)
      Candidates(p) == {c \in ToSet(x.candidates) : ~c.abstract /\ c.module = p[1] /\ c.name = p[2]}
      Edited(p) == \E c \in Candidates(p) : c.label \in previous.invalid
      changed == {p \in DOMAIN old \cup DOMAIN new :
                    Get(old, p, <<>>) # Get(new, p, <<>>) \/ (p \in DOMAIN new /\ Edited(p))}
      Summary(p) == IF p \in DOMAIN new THEN new[p][1] ELSE old[p][1]
      own == UNION {IF Candidates(p) = {} THEN {Summary(p)} ELSE {c.label : c \in Candidates(p)} : p \in changed}
      aliases == UNION {{c.label : c \in Candidates(p)} \cup {Summary(p)}
                          \cup {g.byPath[q] : q \in {Append(p[1], p[2])} \cap DOMAIN g.byPath} : p \in changed}
      Points(l) == \E f \in ToSet(g.fields[l]) : f.target \in aliases \/ f.declared \in aliases
      Label(l) == IF g.nodes[l].candidate = <<>> THEN l ELSE g.nodes[l].candidate[1].label
  IN IF changed = {} THEN {}
     ELSE own \cup previous.invalid \cup {Label(l) : l \in {k \in DOMAIN g.fields : Points(k)}}

\* faulty: only what was invalid before is refreshed
InvalidSurfaces(x, g, previous, snapshot, known) == previous.invalid

\* The surfaces the new snapshot or the new graph changes.
ChangedSurfaces(x, g, previous, snapshot, known) ==
  LET Differ(a, b) == {k \in DOMAIN a \cup DOMAIN b : Get(a, k, {}) # Get(b, k, {})}
  IN previous.invalid
       \cup ((previous.complete \cup snapshot.complete) \ (previous.complete \cap snapshot.complete))
       \cup {k[1] : k \in {i \in DOMAIN previous.items \cup DOMAIN snapshot.items :
                            Get(previous.items, i, <<>>) # Get(snapshot.items, i, <<>>)}}
       \cup Differ(previous.managers, snapshot.managers)
       \cup {l \in Concrete(x) : Key(GraphLabels(x, g), l) \notin known}

\* What the fresh process returns: the snapshot, the graph and a surface slice.
Refreshed(x, rt, g, disk, surface, fresh, flip) ==
  LET worker   == [rt EXCEPT !.registry = fresh.registry]
      previous == SnapshotOf(x.members)
      models   == ChangedModels(rt, fresh)
      Captured(graph) == [CaptureMembers(x, worker, graph) EXCEPT !.models = models]
      Graph(owned, labels) ==
        IF labels = {} THEN g ELSE RebuildGraph(g, owned, owned, worker, disk, labels, flip)
      Labelled(graph, snapshot, labels) ==
        IF x.members = <<>> THEN Labels(x)
        ELSE labels \cup ChangedSurfaces(x, graph, previous, snapshot, DOMAIN surface)
  IN With(Captured(g), LAMBDA first :
     With([x EXCEPT !.members = <<first>>], LAMBDA owned :
     With(ReconciledLabels(owned, g, previous, models), LAMBDA labels :
     With(Graph(owned, labels), LAMBDA graph :
     With(IF RuntimeOnly(graph) \subseteq DOMAIN g.nodes THEN first ELSE Captured(graph), LAMBDA snapshot :
     With([x EXCEPT !.members = <<snapshot>>], LAMBDA index :
       [index |-> index, graph |-> graph,
        slice |-> BuildSurface(index, worker, graph, disk, Labelled(graph, snapshot, labels))]))))))

\* The daemon keeps the entries of the models that are still there.
Composed(x, g, surface, slice) ==
  Over(slice, [k \in DOMAIN surface \cap SurfaceKeys(x, g) |-> surface[k]])

=============================================================================
