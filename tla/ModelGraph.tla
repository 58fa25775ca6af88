----------------------------- MODULE ModelGraph -----------------------------
(***************************************************************************)
(* The model graph (semantic/graph.py): the fields of every concrete model *)
(* as an editor sees them, joined from the static index and, once it is    *)
(* there, the runtime catalogue.  build_model_graph makes it from nothing, *)
(* rebuild_model_graph_for_labels patches it after an edit and keeps what  *)
(* the edit says against an older runtime catalogue: overrides of single   *)
(* fields and the models that are gone.                                    *)
(*                                                                         *)
(* A runtime inspection (runtime/inspector.py) is [ready, models,          *)
(* registry].  models, the catalogue, maps the label Django gives a model  *)
(* to [module, fields, managers, pk]; the label's app may differ from the  *)
(* one read from the path of the file: RuntimeApp maps a module to it.     *)
(* registry is what the running process has in its own Django registry:    *)
(* the daemon's is as old as the catalogue, a refresh worker's is new.     *)
(* A refresh attaches to the index what it captured (members); the models  *)
(* in it amend the catalogue.                                              *)
(*                                                                         *)
(* The fields of a model are a sequence without two of one name, the dict  *)
(* of the code with its order.  A graph is [fields, nodes, byName, byPath, *)
(* edges, overrides, removed].  Left out: the detached catalogue that a    *)
(* worker captured, and the memo of the label join.                        *)
(***************************************************************************)
EXTENDS StaticReindex

CONSTANT
  RuntimeApp       \* module -> the app label Django's registry gives it

AttnameKinds == {"ForeignKey", "OneToOneField", "ParentalKey"}

HasName(fields, name) == \E i \in DOMAIN fields : fields[i].name = name

FieldNamed(fields, name) == fields[CHOOSE i \in DOMAIN fields : fields[i].name = name]

Put(fields, f) ==
  IF HasName(fields, f.name)
  THEN [i \in DOMAIN fields |-> IF fields[i].name = f.name THEN f ELSE fields[i]]
  ELSE Append(fields, f)

Drop(fields, name) == SelectSeq(fields, LAMBDA f : f.name # name)

-----------------------------------------------------------------------------
(* The runtime catalogue.                                                  *)

NoRuntime == [ready |-> FALSE, models |-> <<>>, registry |-> <<>>]

RuntimeLabel(c) == <<IF c.label[1] # c.module[1] THEN c.app ELSE RuntimeApp[c.module], c.name>>

\* Django's registry after it imported the sources: what the static index
\* says of them, under Django's labels.
DjangoRegistry(x) ==
  [c \in {d \in ToSet(x.candidates) : ~d.abstract} |-> Get(x.fields, c.label, <<>>)]

\* collect_runtime_model_metadata: a reverse relation is listed under its
\* accessor and under the name queries use.
RuntimeModels(x, managers) ==
  LET registry == DjangoRegistry(x)
      Label(l) == IF l \in Labels(x) THEN RuntimeLabel(ByLabel(x, l)) ELSE l
      IsKey(f) ==
        LET owner == ByLabel(x, f.declared)
        IN \E i \in DOMAIN x.modules[owner.module].pending :
              LET p == x.modules[owner.module].pending[i]
              IN p.label = f.declared /\ p.name = f.name /\ p.pk
      Summary(f, name) ==
        [name |-> name, kind |-> f.kind,
         relation |-> f.relation, direction |-> f.direction,
         target |-> IF f.target = NoLabel THEN NoLabel ELSE Label(f.target),
         rname |-> IF f.direction = "reverse" THEN f.name ELSE <<>>,
         rquery |-> IF f.direction = "reverse" THEN f.rquery ELSE <<>>]
      Names(f) == IF f.direction = "reverse" /\ f.rquery \notin {<<>>, f.name}
                  THEN <<f.name, f.rquery>> ELSE <<f.name>>
      Keys(fields) == SelectSeq(fields, LAMBDA f : f.direction # "reverse" /\ IsKey(f))
      Id == [name |-> <<"id">>, kind |-> <<"BigAutoField">>, relation |-> FALSE,
             direction |-> "", target |-> NoLabel, rname |-> <<>>, rquery |-> <<>>]
      Fields(fields) ==
        (IF Keys(fields) = <<>> /\ ~HasName(fields, <<"id">>) THEN <<Id>> ELSE <<>>)
          \o Concat([i \in DOMAIN fields |->
               [k \in DOMAIN Names(fields[i]) |-> Summary(fields[i], Names(fields[i])[k])]])
      Model(c) ==
        [module |-> c.module, fields |-> Fields(registry[c]), managers |-> managers[c.label],
         pk |-> IF Keys(registry[c]) = <<>> THEN <<"id">> ELSE Keys(registry[c])[1].name]
      models == DOMAIN registry
  IN [l \in {RuntimeLabel(c) : c \in models} |-> Model(CHOOSE c \in models : RuntimeLabel(c) = l)]

\* The catalogue, amended by the models that a refresh captured.
Catalogue(x, rt) ==
  With(IF rt.ready /\ x.members # <<>> THEN x.members[1].models ELSE <<>>, LAMBDA captured :
    LET Path(l, model) == <<model.module, l[2]>>
        renewed == {Path(l, captured[l]) : l \in DOMAIN captured}
        kept == {l \in DOMAIN rt.models : Path(l, rt.models[l]) \notin renewed}
    IN Once([l \in kept \cup DOMAIN captured |-> IF l \in DOMAIN captured THEN captured[l] ELSE rt.models[l]]))

\* The runtime label of each static one, joined by module and class name.
RuntimeLabels(x, rt) ==
  With(Catalogue(x, rt), LAMBDA models :
    LET Joined(c) == {l \in DOMAIN models : models[l].module = c.module /\ l[2] = c.name}
        hits == {c \in ToSet(x.candidates) : ~c.abstract /\ Joined(c) # {}}
    IN Once([l \in {c.label : c \in hits} |->
               CHOOSE r \in UNION {Joined(c) : c \in {d \in hits : d.label = l}} : TRUE]))

StaticLabels(x, rt) ==
  With(RuntimeLabels(x, rt), LAMBDA to :
    Once([r \in {to[l] : l \in DOMAIN to} |-> CHOOSE l \in DOMAIN to : to[l] = r]))

SourceLabel(x, rt, label) ==
  IF label \in Labels(x) THEN label ELSE Get(StaticLabels(x, rt), label, label)

-----------------------------------------------------------------------------
(* The fields of one model.                                                *)

Remapped(f, label, runtimeLabels) ==
  [f EXCEPT !.label = label, !.target = Get(runtimeLabels, @, @),
            !.declared = Get(runtimeLabels, @, @)]

\* A runtime field replaces the static one unless they agree.  The names of a
\* reverse relation are those of this process's registry, if it has it.
MergeRuntime(rt, label, at, fields, r) ==
  LET known == HasName(fields, r.name)
      old   == FieldNamed(fields, r.name)
      live  == /\ r.direction = "reverse" /\ label \in DOMAIN rt.registry
               /\ HasName(rt.registry[label].fields, r.name)
      registered == FieldNamed(rt.registry[label].fields, r.name)
      rname == IF live THEN registered.rname ELSE IF known THEN old.rname ELSE <<>>
      rquery == IF live THEN registered.rquery ELSE IF known THEN old.rquery ELSE <<>>
      agree == /\ known
               /\ old.relation = r.relation /\ old.target = r.target /\ old.kind = r.kind
               /\ old.rname = rname /\ old.rquery = rquery
      where == IF known THEN old ELSE at
  IN IF agree THEN fields
     ELSE Put(fields, [label |-> label, name |-> r.name, module |-> where.module,
            init |-> where.init, line |-> where.line, kind |-> r.kind, relation |-> r.relation,
            direction |-> r.direction, target |-> r.target,
            declared |-> IF known THEN old.declared ELSE label,
            rname |-> rname, rquery |-> rquery, source |-> "runtime", ctor |-> <<>>])

\* A reverse relation also answers to the name queries use.
WithQueryAliases(fields) ==
  LET Add(all, f) ==
        IF \/ f.direction # "reverse" \/ f.rquery \in {<<>>, f.name} \/ HasName(all, f.rquery)
        THEN all
        ELSE Append(all, [f EXCEPT !.name = f.rquery, !.source = "related_query_alias", !.ctor = <<>>])
  IN FoldLeft(Add, fields, fields)

\* While the runtime is pending: the key the current source declares, else id.
WithImplicitKeys(x, disk, label, source, fields) ==
  LET c == IF source \in Labels(x) THEN ByLabel(x, source)
           ELSE IF label \in Labels(x) THEN ByLabel(x, label)
           ELSE [module |-> <<>>, init |-> FALSE, line |-> 0]
      at == IF c.module = <<>> /\ fields # <<>> THEN fields[1] ELSE c
      InSource(f) ==
        LET text == disk[FileOf(f)]
        IN text.state = "ok" /\ \E i \in DOMAIN text.body :
             /\ text.body[i].op = "class" /\ text.body[i].name = f.declared[2]
             /\ \E k \in DOMAIN text.body[i].fields :
                  text.body[i].fields[k].name = f.name /\ text.body[i].fields[k].pk
      IsOption(f) == \E m \in DOMAIN x.modules : \E i \in DOMAIN x.modules[m].pending :
                       LET p == x.modules[m].pending[i]
                       IN p.pk /\ p.label = f.declared /\ p.name = f.name
      keys == SelectSeq(fields, LAMBDA f :
                IsOption(f) /\ f.declared \in Labels(x) /\ FileOf(f) \in Files /\ InSource(f))
      Alias(f) == IF HasName(fields, <<"pk">>) THEN fields
                  ELSE Append(fields, [f EXCEPT !.name = <<"pk">>])
      Implicit(name) ==
        [label |-> label, name |-> name, module |-> at.module, init |-> at.init,
         line |-> at.line, kind |-> <<"BigAutoField">>, relation |-> FALSE, direction |-> "",
         target |-> NoLabel, declared |-> label, rname |-> <<>>, rquery |-> <<>>,
         source |-> "synthetic", ctor |-> <<>>]
  IN IF keys # <<>> THEN Alias(keys[1])
     ELSE IF HasName(fields, <<"id">>) THEN Alias(FieldNamed(fields, <<"id">>))
     ELSE fields \o SelectSeq(<<Implicit(<<"id">>), Implicit(<<"pk">>)>>,
                              LAMBDA f : ~HasName(fields, f.name))

\* Once the runtime is ready it names the primary key.
WithRuntimeKey(rt, label, fields) ==
  IF \/ HasName(fields, <<"pk">>) \/ label \notin DOMAIN rt.registry
     \/ ~HasName(fields, rt.registry[label].pk)
  THEN fields
  ELSE LET key == FieldNamed(fields, rt.registry[label].pk)
       IN Append(fields, [key EXCEPT !.name = <<"pk">>,
                            !.source = IF @ = "static_edit" THEN @ ELSE "runtime"])

WithAttnames(rt, label, fields) ==
  LET Attname(f) == Append(f.name, "id")
      InRegistry(name) ==
        label \in DOMAIN rt.registry /\ HasName(rt.registry[label].fields, Front(name))
      Add(all, f) ==
        IF \/ ~f.relation \/ f.direction # "forward" \/ f.kind[1] \notin AttnameKinds
           \/ HasName(all, Attname(f))
        THEN all
        ELSE Append(all, [f EXCEPT !.name = Attname(f), !.relation = FALSE, !.direction = "",
                            !.target = NoLabel, !.ctor = <<>>,
                            !.source = IF InRegistry(Attname(f)) THEN "runtime" ELSE @])
  IN FoldLeft(Add, fields, fields)

\* An override is <<field>> for an edited declaration, <<>> for a removed one.
ApplyOverride(label, runtimeLabels, fields, o) ==
  IF o.field = <<>> THEN Drop(fields, o.name)
  ELSE Put(fields, Remapped(o.field[1], label, runtimeLabels))

BuildFields(x, rt, disk, label, source, overrides) ==
  LET to == RuntimeLabels(x, rt)
      static == Get(x.fields, source, <<>>)
      own == FoldLeft(LAMBDA all, f : Put(all, Remapped(f, label, to)), <<>>, static)
      at  == IF label \in Labels(x) THEN ByLabel(x, label)
             ELSE IF source \in Labels(x) THEN ByLabel(x, source)
             ELSE [module |-> <<>>, init |-> FALSE, line |-> 1]
      models == Catalogue(x, rt)
  IN With(IF label \notin DOMAIN models THEN own
          ELSE FoldLeft(LAMBDA all, r : MergeRuntime(rt, label, at, all, r), own,
                        models[label].fields), LAMBDA merged :
       LET edited == FoldLeft(LAMBDA all, o : ApplyOverride(label, to, all, o), merged, overrides)
           aliased == WithQueryAliases(edited)
       IN IF rt.ready THEN WithAttnames(rt, label, WithRuntimeKey(rt, label, aliased))
          ELSE WithImplicitKeys(x, disk, label, source, aliased))

-----------------------------------------------------------------------------
(* Nodes and edges.                                                        *)

Node(x, rt, label, source, fields) ==
  LET c == IF label \in Labels(x) THEN <<ByLabel(x, label)>>
           ELSE IF source \in Labels(x) THEN <<ByLabel(x, source)>> ELSE <<>>
  IN With(Catalogue(x, rt), LAMBDA models :
       LET live == label \in DOMAIN models
           Of(direction) == {f.name : f \in {g \in ToSet(fields) : g.relation /\ g.direction = direction}}
           Listed(direction) ==
             IF live THEN {f.name : f \in {g \in ToSet(models[label].fields) :
                                             g.relation /\ g.direction = direction}} ELSE {}
       IN [label |-> label, name |-> IF c # <<>> THEN c[1].name ELSE label[2],
           module |-> IF live THEN models[label].module ELSE IF c # <<>> THEN c[1].module ELSE <<>>,
           names |-> NamesOf(fields),
           relations |-> Listed("forward") \cup Of("forward"),
           reverses  |-> Listed("reverse") \cup Of("reverse"),
           managers  |-> IF live THEN models[label].managers ELSE <<>>,
           candidate |-> c, runtime |-> live])

ImportPath(n) == Append(n.module, n.name)

Edges(fields) ==
  LET related == {f \in ToSet(fields) : f.relation /\ f.target # NoLabel}
      Direction(f) == IF f.direction = "" THEN "forward" ELSE f.direction
      Joined(e) == {f \in related : f.target = e[1] /\ Direction(f) = e[2]}
  IN {[target |-> e[1], direction |-> e[2], names |-> {f.name : f \in Joined(e)},
       kinds |-> {f.kind : f \in Joined(e)}] : e \in {<<f.target, Direction(f)>> : f \in related}}

ByObjectName(nodes) ==
  [n \in {nodes[l].name : l \in DOMAIN nodes} |-> {l \in DOMAIN nodes : nodes[l].name = n}]

ByImportPath(nodes) ==
  [p \in {ImportPath(nodes[l]) : l \in DOMAIN nodes} |->
     CHOOSE l \in DOMAIN nodes : ImportPath(nodes[l]) = p]

EmptyGraph == [fields |-> <<>>, nodes |-> <<>>, byName |-> <<>>, byPath |-> <<>>,
               edges |-> <<>>, overrides |-> <<>>, removed |-> {}]

\* build_model_graph
BuildGraph(x, rt, disk) ==
  LET to     == RuntimeLabels(x, rt)
      labels == DOMAIN Catalogue(x, rt) \cup
                  {Get(to, c.label, c.label) : c \in {d \in ToSet(x.candidates) : ~d.abstract}}
      Source(l) == SourceLabel(x, rt, l)
  IN With(Once([l \in labels |-> BuildFields(x, rt, disk, l, Source(l), <<>>)]), LAMBDA fields :
       With(Once([l \in labels |-> Node(x, rt, l, Source(l), fields[l])]), LAMBDA nodes :
         [fields |-> [l \in {k \in labels : fields[k] # <<>>} |-> fields[l]],
          nodes  |-> nodes, byName |-> ByObjectName(nodes), byPath |-> ByImportPath(nodes),
          edges  |-> [l \in {k \in labels : Edges(fields[k]) # {}} |-> Edges(fields[l])],
          overrides |-> <<>>, removed |-> {}]))

-----------------------------------------------------------------------------
(* The patch after an edit.                                                *)

\* What makes two declarations of a field the same to the graph.
Signature(fields, name) ==
  IF ~HasName(fields, name) THEN <<>>
  ELSE LET f == FieldNamed(fields, name)
       IN <<f.kind, f.relation, f.direction, f.target, f.rname, f.rquery, f.ctor>>

EditedField(f) == <<[f EXCEPT !.source = "static_edit"]>>

\* The names under which a removed or changed relation was reachable.
AliasesOf(f) ==
  SelectSeq(<<f.rname, f.rquery>>, LAMBDA n : n # <<>>)
    \o IF f.direction # "reverse" /\ f.kind[1] \in AttnameKinds
       THEN <<Append(f.name, "id")>> ELSE <<>>

\* One name of the old or the new fields.
OverrideName(old, new, overrides, name) ==
  LET was == FieldNamed(old, name)
      now == IF HasName(new, name) THEN EditedField(FieldNamed(new, name)) ELSE <<>>
      hidden == IF HasName(old, name) /\ was.relation THEN AliasesOf(was) ELSE <<>>
      cleared == FoldLeft(LAMBDA all, n : Put(all, [name |-> n, field |-> <<>>]), overrides, hidden)
  IN IF Signature(old, name) = Signature(new, name)
     THEN IF HasName(overrides, name) /\ now # <<>>
          THEN Put(overrides, [name |-> name, field |-> now]) ELSE overrides
     ELSE Put(cleared, [name |-> name, field |-> now])

\* The last of two fields with one name is the one a dict keeps.
Unique(fields) == FoldLeft(Put, <<>>, fields)

\* faulty: a name only the old node had stays
OverridesOfNew(before, old, new, runtimeNames, flip) ==
  FoldLeft(LAMBDA acc, f : OverrideName(Unique(old), Unique(new), acc, f.name), before, Unique(new))

\* The code walks the names of the old and the new fields as a set, whose
\* order is not defined: flip stands for another order than the dict's.
Overrides(before, old, new, runtimeNames, flip) ==
  LET o == Unique(old)
      n == Unique(new)
      names == [i \in DOMAIN o |-> o[i].name] \o
               SelectSeq([i \in DOMAIN n |-> n[i].name], LAMBDA m : ~HasName(o, m))
      all == FoldLeft(LAMBDA acc, name : OverrideName(o, n, acc, name), before,
                       IF flip THEN Reverse(names) ELSE names)
  IN SelectSeq(all, LAMBDA v : v.field # <<>> \/ v.name \in runtimeNames)

\* The keys of the graph that hold the labels, also under the label an older
\* catalogue gave the model.
AffectedGraphLabels(g, x0, x, rt, labels) ==
  LET now == RuntimeLabels(x, rt)
      was == RuntimeLabels(x0, rt)
      Nodes(l) == IF l \notin Labels(x0) THEN {}
                  ELSE {k \in Get(g.byName, ByLabel(x0, l).name, {}) :
                          g.nodes[k].module = ByLabel(x0, l).module}
  IN UNION {{l, Get(now, l, l), Get(was, l, l)} \cup Nodes(l) : l \in labels}

\* What becomes of one affected key: "alias" of a runtime node, "removed"
\* with its source, "unknown", or "rebuilt".
Fate(x0, x, rt, label) ==
  LET source == SourceLabel(x, rt, label)
      before == Get(StaticLabels(x0, rt), label, label)
      known  == source \in Labels(x)
  IN IF Get(RuntimeLabels(x, rt), label, label) # label THEN "alias"
     ELSE IF known /\ ByLabel(x, source).abstract THEN "removed"
     ELSE IF before \in Labels(x0) /\ ~known THEN "removed"
     ELSE IF ~known /\ label \notin DOMAIN Catalogue(x, rt) THEN "unknown"
     ELSE "rebuilt"

\* faulty: a name that lost its models stays
NamesOnlyAdded(g, nodes, affected) ==
  LET now == {nodes[l].name : l \in affected \cap DOMAIN nodes}
  IN [n \in DOMAIN g.byName \cup now |->
        Get(g.byName, n, {}) \cup {l \in affected \cap DOMAIN nodes : nodes[l].name = n}]

\* Groups by name and by path of the nodes that did not change stay intact.
PatchedNames(g, nodes, affected) ==
  LET touched == {g.nodes[l].name : l \in affected \cap DOMAIN g.nodes}
                   \cup {nodes[l].name : l \in affected \cap DOMAIN nodes}
      Now(n) == (Get(g.byName, n, {}) \ affected) \cup {l \in affected \cap DOMAIN nodes : nodes[l].name = n}
      all == DOMAIN g.byName \cup touched
  IN [n \in {k \in all : k \in touched => Now(k) # {}} |->
        IF n \in touched THEN Now(n) ELSE g.byName[n]]

PatchedPaths(g, nodes, affected) ==
  LET touched == {ImportPath(g.nodes[l]) : l \in affected \cap DOMAIN g.nodes}
                   \cup {ImportPath(nodes[l]) : l \in affected \cap DOMAIN nodes}
      Now(p) == {l \in DOMAIN nodes : ImportPath(nodes[l]) = p}
      all == DOMAIN g.byPath \cup touched
  IN [p \in {k \in all : k \in touched => Now(k) # {}} |->
        IF p \in touched THEN CHOOSE l \in Now(p) : TRUE ELSE g.byPath[p]]

\* rebuild_model_graph_for_labels
RebuildGraph(g, x0, x, rt, disk, labels, flip) ==
  LET models == Catalogue(x, rt)
      held   == g.removed \cap DOMAIN models
      IsHeld(l) == l \in held /\ SourceLabel(x, rt, l) \notin Labels(x)
      RuntimeNames(l) == IF l \in DOMAIN models THEN NamesOf(models[l].fields) ELSE {}
      Old(l) == Get(x0.fields, Get(StaticLabels(x0, rt), l, l), <<>>)
      New(l) == Get(x.fields, SourceLabel(x, rt, l), <<>>)
      Edits(l) == Overrides(Get(g.overrides, l, <<>>), Old(l), New(l), RuntimeNames(l), flip)
  IN With(AffectedGraphLabels(g, x0, x, rt, labels), LAMBDA affected :
     With(Once([l \in affected |-> Fate(x0, x, rt, l)]), LAMBDA fate :
     With({l \in affected : fate[l] = "rebuilt" /\ ~IsHeld(l)}, LAMBDA built :
     With(Once([l \in built |-> Edits(l)]), LAMBDA edits :
     With(Once([l \in built |->
            BuildFields(x, rt, disk, l, SourceLabel(x, rt, l), edits[l])]), LAMBDA fields :
     LET gone  == {l \in affected : fate[l] \in {"removed", "unknown"}}
         edges == Once([l \in built |-> Edges(fields[l])])
         Merge(old, new, dropped, Keep(_)) ==
           Once([l \in (DOMAIN old \ dropped) \cup {k \in built : Keep(k)} |->
                   IF l \in built THEN new[l] ELSE old[l]])
         nodes == Merge(g.nodes,
                    [l \in built |-> Node(x, rt, l, SourceLabel(x, rt, l), fields[l])],
                    affected, LAMBDA l : TRUE)
     IN [fields |-> Merge(g.fields, fields, affected, LAMBDA l : fields[l] # <<>>),
         nodes  |-> nodes,
         byName |-> PatchedNames(g, nodes, affected),
         byPath |-> PatchedPaths(g, nodes, affected),
         edges  |-> Merge(g.edges, edges, affected, LAMBDA l : edges[l] # {}),
         overrides |-> Merge(g.overrides, edits, built \cup gone, LAMBDA l : edits[l] # <<>>),
         removed |-> (held \ built)
                       \cup {l \in affected : fate[l] = "removed" /\ l \in DOMAIN models}])))))

=============================================================================
