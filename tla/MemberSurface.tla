---------------------------- MODULE MemberSurface ----------------------------
(***************************************************************************)
(* The members an editor offers on a model, its class, its managers and    *)
(* querysets (features/orm_members.py), the surface the client holds, and  *)
(* the static fallback for the models whose surface knows no field         *)
(* (server/app.py).                                                        *)
(*                                                                         *)
(* A member of a class body is a method                                    *)
(*   [op "def", name, kind, ret]   kind "method" or "property"             *)
(* or an assigned call                                                     *)
(*   [op "call", name, function, nested, queryset]                         *)
(* that is name = function(...), or name = nested(queryset)(...).  ret is  *)
(* the annotation, [shape, ref]: a QuerySet, a Manager or a plain type,    *)
(* and the model it mentions.  querysets of a class are its bases of the   *)
(* form M.from_queryset(Q), which come first.                              *)
(*                                                                         *)
(* A surface maps a receiver to the members by name, each                  *)
(* [kind, returns, to, field, manager].  Details, positions, signatures    *)
(* and private names are left out, and so are the memo tables: a class is  *)
(* always read as its file is now, which is what their stamps ensure.      *)
(***************************************************************************)
EXTENDS ModelGraph

CONSTANTS
  ManagerClassNames,  \* class names that end in Manager
  InstanceBuiltins,   \* name -> <<member kind, return kind>> of Django's
  ManagerBuiltins,    \*   own methods of a model, a manager
  QuerysetBuiltins    \*   and a queryset

Receivers == {"instance", "model_class", "manager", "queryset", "related_manager"}

Objects == <<"objects">>

NoManager == <<>>

NoItems == <<>>

Item(kind, returns, field, manager) ==
  [kind |-> kind, returns |-> returns[1], to |-> returns[2], field |-> field, manager |-> manager]

First(values, Test(_)) ==
  LET hits == SelectSeq(values, Test) IN IF hits = <<>> THEN <<>> ELSE <<hits[1]>>

-----------------------------------------------------------------------------
(* Classes as the source declares them.                                    *)

ClassAt(x, disk, at) ==
  LET mod == x.modules[at.module]
  IN IF at.module \notin DOMAIN x.modules \/ disk[FileOf(mod)].state # "ok" THEN <<>>
     ELSE First(disk[FileOf(mod)].body, LAMBDA s : s.op = "class" /\ s.name = at.symbol)

ResolveSymbol(x, m, name) ==
  With(First(x.modules[m].imports, LAMBDA i : i.alias = name /\ ~i.star), LAMBDA b :
  With(ResolveOrigin(x, b[1].module, <<b[1].symbol>>), LAMBDA origin :
    IF b = <<>> THEN Origin(m, name)
    ELSE IF b[1].symbol = "" THEN Origin(b[1].module, name)
    ELSE Origin(IF origin.module = <<>> THEN b[1].module ELSE origin.module,
                IF origin.symbol = "" THEN b[1].symbol ELSE origin.symbol)))

Functions(class) == SelectSeq(class.members, LAMBDA s : s.op = "def")

\* What a method returns: its annotation, read from the file of the model.
ReturnOf(x, label, ret, default) ==
  LET c  == ByLabel(x, label)
  IN With(IF ret.ref = <<>> \/ label \notin Labels(x) THEN NoLabel
          ELSE ModelBaseLabel(x, c.module, c.app, ret.ref), LAMBDA to :
       LET model == IF to = NoLabel THEN label ELSE to
       IN CASE ret.shape = "QuerySet" -> <<"queryset", model>>
            [] ret.shape = "Manager"  -> <<"manager", model>>
            [] ret.shape = "plain" /\ to # NoLabel -> <<"instance", to>>
            [] OTHER -> IF default = "unknown" THEN <<"unknown", NoLabel>> ELSE <<default, label>>)

\* The methods a class itself declares; the first of one name counts.
MethodItems(x, disk, at, label, default, manager) ==
  With(ClassAt(x, disk, at), LAMBDA class :
    LET defs  == IF class = <<>> THEN <<>> ELSE Functions(class[1])
    IN [n \in {defs[i].name : i \in DOMAIN defs} |->
          LET d == First(defs, LAMBDA s : s.name = n)[1]
          IN Item(d.kind, ReturnOf(x, label, d.ret, default), <<>>, manager)])

-----------------------------------------------------------------------------
(* Managers.                                                               *)

Nowhere == Unresolved

Symbols == [module : Paths, symbol : STRING]

\* The manager and queryset classes of one assigned call, <<>> if it is none.
ManagerBinding(x, m, call) ==
  LET tail == Last(call.function)
  IN With(ResolveSymbol(x, m, tail), LAMBDA here :
       LET Binding(manager, queryset) == <<[manager |-> manager, queryset |-> queryset]>>
       IN IF call.nested # <<>> /\ Last(call.nested) = "from_queryset"
          THEN Binding(ResolveSymbol(x, m, Last(Front(call.nested))),
                       IF call.queryset = "" THEN Nowhere ELSE ResolveSymbol(x, m, call.queryset))
          ELSE IF call.function = <<>> THEN <<>>
          ELSE IF tail = "as_manager" /\ Len(call.function) > 1
          THEN Binding(Nowhere, ResolveSymbol(x, m, Last(Front(call.function))))
          ELSE IF tail \in ManagerClassNames THEN Binding(here, Nowhere)
          ELSE IF here.module = m /\ here.symbol \in ManagerClassNames THEN Binding(here, Nowhere)
          ELSE <<>>)

\* The managers a model's own class assigns, in order.
ManagerCalls(x, disk, c) ==
  LET class == ClassAt(x, disk, Origin(c.module, c.name))
  IN IF class = <<>> THEN <<>>
     ELSE SelectSeq(class[1].members,
            LAMBDA s : s.op = "call" /\ ManagerBinding(x, c.module, s) # <<>>)

ManagerBindings(x, disk, c) ==
  With(ManagerCalls(x, disk, c), LAMBDA calls :
    Once([n \in {calls[i].name : i \in DOMAIN calls} |->
            ManagerBinding(x, c.module, Last(SelectSeq(calls, LAMBDA s : s.name = n)))[1]]))

BindingFor(x, disk, label, manager) ==
  LET c == ByLabel(x, label)
  IN With(ManagerBindings(x, disk, c), LAMBDA bindings :
       IF label \notin Labels(x) \/ DOMAIN bindings = {} THEN <<>>
       ELSE IF manager \in DOMAIN bindings THEN <<bindings[manager]>>
       ELSE IF Objects \in DOMAIN bindings THEN <<bindings[Objects]>>
       ELSE <<bindings[ManagerCalls(x, disk, c)[1].name]>>)

\* The queryset class a manager class is made from, itself or a base of it.
QuerysetOf(x, disk, manager) ==
  LET queryset[at \in Symbols, visited \in SUBSET Symbols] ==
        With(ClassAt(x, disk, at), LAMBDA class :
          LET bases == class[1].bases
              Above(ref) == queryset[ResolveSymbol(x, at.module, Last(ref)), visited \cup {at}]
              found == SelectSeq([i \in DOMAIN bases |-> Above(bases[i])], LAMBDA q : q # Nowhere)
          IN IF at \in visited \/ class = <<>> THEN Nowhere
             ELSE IF class[1].querysets # <<>> THEN ResolveSymbol(x, at.module, class[1].querysets[1])
             ELSE IF found = <<>> THEN Nowhere ELSE found[1])
  IN queryset[manager, {}]

StaticManagerItems(x, disk, label, manager) ==
  With(BindingFor(x, disk, label, manager), LAMBDA binding :
    With(QuerysetOf(x, disk, binding[1].manager), LAMBDA made :
      LET queryset == IF made = Nowhere THEN binding[1].queryset ELSE made
          Of(at) == IF at = Nowhere THEN NoItems ELSE MethodItems(x, disk, at, label, "queryset", manager)
      IN IF binding = <<>> THEN NoItems ELSE Of(binding[1].manager) @@ Of(queryset)))

StaticQuerysetItems(x, disk, label, manager) ==
  With(BindingFor(x, disk, label, manager), LAMBDA binding :
    LET at == IF binding[1].queryset # Nowhere THEN binding[1].queryset
              ELSE QuerysetOf(x, disk, binding[1].manager)
    IN IF binding = <<>> \/ at = Nowhere THEN NoItems
       ELSE MethodItems(x, disk, at, label, "queryset", manager))

-----------------------------------------------------------------------------
(* Django's registry: the classes the process imported.                    *)

\* The methods of a class and of its bases, nearest first.
InheritedMethods(x, disk, leaf) ==
  LET methods[at \in Symbols, visited \in SUBSET Symbols] ==
        With(ClassAt(x, disk, at), LAMBDA class :
          LET defs  == Functions(class[1])
              own   == [n \in {defs[i].name : i \in DOMAIN defs} |-> First(defs, LAMBDA s : s.name = n)[1]]
              Of(name) == methods[ResolveSymbol(x, at.module, name), visited \cup {at}]
              copied == FoldLeft(LAMBDA all, q : all @@ Of(q), own, class[1].querysets)
          IN IF at \in visited \/ class = <<>> THEN <<>>
             ELSE FoldLeft(LAMBDA all, ref : all @@ Of(Last(ref)), copied, class[1].bases))
  IN methods[leaf, {}]

\* The managers of a model and of its abstract bases, objects if none.
RegisteredManagers(x, disk, model) ==
  LET Made(b) == With(QuerysetOf(x, disk, b.manager), LAMBDA made :
                   IF made # Nowhere THEN made ELSE b.queryset)
      Methods(at) == IF at = Nowhere THEN <<>> ELSE InheritedMethods(x, disk, at)
      Own(b) == [manager |-> Methods(b.manager) @@ Methods(b.queryset), queryset |-> Methods(Made(b))]
      managers[label \in Paths] ==
        LET parents == SelectSeq(x.bases[label], LAMBDA l : ByLabel(x, l).abstract)
        IN With(ManagerBindings(x, disk, ByLabel(x, label)), LAMBDA bindings :
             FoldLeft(LAMBDA all, l : all @@ managers[l],
                      [n \in DOMAIN bindings |-> Own(bindings[n])], parents))
  IN managers[model]

Managed(x, disk, label) ==
  With(RegisteredManagers(x, disk, label), LAMBDA all :
    IF DOMAIN all = {} THEN Objects :> [manager |-> <<>>, queryset |-> <<>>] ELSE all)

\* The catalogue of a process that imported the sources of x now, and the
\* registry it has: the catalogue with the classes themselves.
Inspection(x, disk) ==
  With(RuntimeModels(x, [l \in Labels(x) |-> DOMAIN Managed(x, disk, l)]), LAMBDA models :
    LET Of(l) == CHOOSE c \in ToSet(x.candidates) : ~c.abstract /\ RuntimeLabel(c) = l
        Default(managed) == IF Objects \in DOMAIN managed THEN Objects ELSE CHOOSE n \in DOMAIN managed : TRUE
    IN [ready |-> TRUE, models |-> models,
        registry |-> [l \in DOMAIN models |->
          With(Managed(x, disk, Of(l).label), LAMBDA managed :
            [module |-> models[l].module, fields |-> models[l].fields, managers |-> models[l].managers,
             pk |-> models[l].pk, managed |-> managed, default |-> Default(managed),
             methods |-> InheritedMethods(x, disk, Origin(Of(l).module, Of(l).name))])]])

\* A model an annotation names, in the app of the current one or anywhere.
RegisteredLabel(rt, at, ref) ==
  LET Of(app) == {l \in DOMAIN rt.registry : l[2] = Last(ref) /\ (app = "" \/ l[1] = app)}
      Only(s) == Cardinality(s) = 1
  IN IF ref = <<>> THEN NoLabel
     ELSE IF Only(Of(at[1])) THEN CHOOSE l \in Of(at[1]) : TRUE
     ELSE IF Only(Of("")) THEN CHOOSE l \in Of("") : TRUE
     ELSE NoLabel

RuntimeReturn(rt, at, label, ret, default) ==
  With(RegisteredLabel(rt, at, ret.ref), LAMBDA to :
    LET model == IF to = NoLabel THEN label ELSE to
    IN CASE ret.shape = "QuerySet" -> <<"queryset", model>>
         [] ret.shape = "Manager"  -> <<"manager", model>>
         [] ret.shape = "plain" /\ to # NoLabel -> <<"instance", to>>
         [] OTHER -> IF default = "unknown" THEN <<"unknown", NoLabel>> ELSE <<default, label>>)

\* The project's callables of the registered classes of one model.
CallableItems(rt, at, label, methods, default, manager) ==
  [n \in DOMAIN methods |->
     Item(methods[n].kind, RuntimeReturn(rt, at, label, methods[n].ret, default), <<>>, manager)]

LiveItems(rt, at, label, receiver, manager) ==
  LET model == rt.registry[at]
      managed == IF manager \in DOMAIN model.managed THEN model.managed[manager]
                 ELSE model.managed[model.default]
  IN IF at \notin DOMAIN rt.registry THEN NoItems
     ELSE CASE receiver \in {"instance", "model_class"} ->
                 CallableItems(rt, at, label, model.methods, "unknown", NoManager)
            [] receiver \in {"manager", "related_manager"} ->
                 CallableItems(rt, at, label, managed.manager @@ managed.queryset, "queryset", manager)
            [] receiver = "queryset" ->
                 CallableItems(rt, at, label, managed.queryset, "queryset", manager)

Owned(x, rt) == IF rt.ready THEN x.members ELSE <<>>

\* An edited class has no runtime members until it is captured again.
RuntimeItems(x, rt, label, receiver, manager) ==
  LET owned == Owned(x, rt)
  IN IF ~rt.ready THEN NoItems
     ELSE IF owned # <<>> /\ label \in owned[1].invalid THEN NoItems
     ELSE IF owned # <<>> /\ label \in owned[1].complete
     THEN Get(owned[1].items, <<label, receiver, manager>>, NoItems)
     ELSE LiveItems(rt, label, label, receiver, manager)

-----------------------------------------------------------------------------
(* The labels of the index and those of the graph.                         *)

GraphLabels(x, g) ==
  LET Joined(c) == {l \in DOMAIN g.nodes : g.nodes[l].module = c.module /\ g.nodes[l].name = c.name}
      split == {c \in ToSet(x.candidates) : Joined(c) # {} /\ c.label \notin Joined(c)}
  IN Once([l \in {c.label : c \in split} |-> CHOOSE k \in Joined(ByLabel(x, l)) : TRUE])
Normalized(x, g, label) ==
  IF label \in Labels(x) \/ label \notin DOMAIN g.nodes \/ g.nodes[label].candidate = <<>> THEN label
  ELSE g.nodes[label].candidate[1].label

-----------------------------------------------------------------------------
(* The five surfaces of a model.                                           *)

FieldItem(f) ==
  IF ~f.relation THEN Item("field", <<"scalar", NoLabel>>, f.kind, NoManager)
  ELSE Item(IF f.direction = "reverse" THEN "reverse_relation" ELSE "relation",
            <<IF f.kind \in {<<"ForeignKey">>, <<"OneToOneField">>, <<"reverse", "OneToOneField">>}
              THEN "instance" ELSE "related_manager", f.target>>, f.kind, NoManager)

\* The fields of the bases, found in the same file or by a dotted path.
FieldsFromBases(x, model) ==
  LET fields[label \in Paths, visited \in SUBSET Paths] ==
        LET c == ByLabel(x, label)
            At(ref) == IF Len(ref) = 1 THEN LabelAt(x, c.module, ref[1])
                       ELSE LabelAt(x, Front(ref), Last(ref))
            bases == SelectSeq([i \in DOMAIN c.bases |-> At(c.bases[i])], LAMBDA l : l # NoLabel)
            Above(l) == Get(x.fields, l, <<>>) \o fields[l, visited \cup {label}]
        IN IF label \in visited \/ label \notin Labels(x) THEN <<>>
           ELSE Concat([i \in DOMAIN bases |-> Above(bases[i])])
  IN fields[model, {}]

InstanceFields(x, g, label) ==
  LET c == ByLabel(x, label)
      nodes == IF label \notin Labels(x) THEN {}
               ELSE {l \in Get(g.byName, c.name, {}) : g.nodes[l].module = c.module}
      known == <<Get(g.fields, label, <<>>),
                 IF nodes = {} THEN <<>> ELSE Get(g.fields, CHOOSE l \in nodes : TRUE, <<>>),
                 Get(x.fields, label, <<>>), FieldsFromBases(x, label)>>
  IN First(known, LAMBDA fields : fields # <<>>)

FieldItems(fields) ==
  LET all == IF fields = <<>> THEN <<>> ELSE fields[1]
  IN [n \in NamesOf(all) |-> FieldItem(FieldNamed(all, n))]

StaticModelItems(x, disk, label) ==
  IF label \notin Labels(x) THEN NoItems
  ELSE LET c == ByLabel(x, label)
       IN MethodItems(x, disk, Origin(c.module, c.name), label, "unknown", NoManager)

\* Captured names, those of the catalogue, the declared ones, else objects.
ManagerNames(x, rt, disk, label) ==
  LET owned   == Owned(x, rt)
      pending == owned # <<>> /\ label \in owned[1].invalid
  IN With(DOMAIN ManagerBindings(x, disk, ByLabel(x, label)), LAMBDA declared :
       IF owned # <<>> /\ ~pending /\ label \in DOMAIN owned[1].managers THEN owned[1].managers[label]
       ELSE IF ~pending /\ rt.ready /\ label \in DOMAIN rt.models /\ rt.models[label].managers # {}
       THEN rt.models[label].managers
       ELSE IF ~IsConcrete(x, label) THEN {}
       ELSE IF declared # {} THEN declared ELSE {Objects})

ManagerItems(x, rt, disk, label) ==
  [n \in ManagerNames(x, rt, disk, label) |-> Item("manager", <<"manager", label>>, <<>>, n)]

BuiltinItems(builtins, label, manager) ==
  [n \in DOMAIN builtins |->
     LET kind == builtins[n][1]
         returns == builtins[n][2]
     IN Item(kind, <<returns, IF returns \in {"instance", "manager", "queryset"} THEN label ELSE NoLabel>>,
             IF kind = "property" THEN <<"BooleanField">> ELSE <<>>,
             IF kind = "property" THEN NoManager ELSE manager)]

Surface(x, rt, g, disk, label, receiver, manager) ==
  CASE receiver = "instance" ->
         FieldItems(InstanceFields(x, g, label)) @@ StaticModelItems(x, disk, label)
           @@ RuntimeItems(x, rt, label, receiver, NoManager)
           @@ BuiltinItems(InstanceBuiltins, label, NoManager)
    [] receiver = "model_class" ->
         ManagerItems(x, rt, disk, label) @@ StaticModelItems(x, disk, label)
           @@ RuntimeItems(x, rt, label, receiver, NoManager)
    [] receiver \in {"manager", "related_manager"} ->
         BuiltinItems(ManagerBuiltins, label, manager) @@ StaticManagerItems(x, disk, label, manager)
           @@ RuntimeItems(x, rt, label, receiver, manager)
    [] receiver = "queryset" ->
         BuiltinItems(QuerysetBuiltins, label, manager) @@ StaticQuerysetItems(x, disk, label, manager)
           @@ RuntimeItems(x, rt, label, receiver, manager)
    [] OTHER -> NoItems

-----------------------------------------------------------------------------
(* The surface index: every concrete model under its label in the graph.   *)

Entry(x, rt, g, disk, labels, label) ==
  With(Once([r \in Receivers |-> Surface(x, rt, g, disk, label, r, NoManager)]), LAMBDA all :
    LET Value(i) == <<i.returns, Get(labels, i.to, i.to), i.kind, i.field>>
    IN [r \in {s \in Receivers : DOMAIN all[s] # {}} |->
          [n \in DOMAIN all[r] |-> Value(all[r][n])]])

Concrete(x) == {c.label : c \in {d \in ToSet(x.candidates) : ~d.abstract}}

Key(labels, l) == Get(labels, l, l)

\* Django gives every concrete model an objects manager: a full build adds it.
WithObjects(entry, key) ==
  LET class == Get(entry, "model_class", <<>>)
      added == class @@ (Objects :> <<"manager", key, "manager", <<>>>>)
  IN ("model_class" :> added) @@ entry

BuildSurface(x, rt, g, disk, labels) ==
  LET to == GraphLabels(x, g)
      chosen == Concrete(x) \cap labels
      Of(k) == CHOOSE l \in chosen : Key(to, l) = k
  IN [k \in {Key(to, l) : l \in chosen} |-> WithObjects(Entry(x, rt, g, disk, to, Of(k)), k)]

SurfaceKeys(x, g) == {Key(GraphLabels(x, g), l) : l \in Concrete(x)}

RebuildSurface(x, rt, g, disk, labels, surface) ==
  LET to == GraphLabels(x, g)
      gone == {Key(to, l) : l \in labels} \ SurfaceKeys(x, g)
      chosen == Concrete(x) \cap labels
      Of(k) == CHOOSE l \in chosen : Key(to, l) = k
  IN Over([k \in {Key(to, l) : l \in chosen} |-> Entry(x, rt, g, disk, to, Of(k))],
          [k \in DOMAIN surface \ gone |-> surface[k]])

\* A neighbour whose node and fields are the same keeps its entry.
RebuildSlice(x0, x, rt, g0, g, disk, labels, source, surface) ==
  LET was == GraphLabels(x0, g0)
      now == GraphLabels(x, g)
      Same(l) == /\ Key(was, l) = Key(now, l)
                 /\ Key(now, l) \in DOMAIN surface
                 /\ Key(was, l) \in DOMAIN g0.nodes
                 /\ Key(now, l) \in DOMAIN g.nodes
                 /\ g0.nodes[Key(was, l)] = g.nodes[Key(now, l)]
                 /\ Get(g0.fields, Key(was, l), <<>>) = Get(g.fields, Key(now, l), <<>>)
      Keys(chosen) == {Key(was, l) : l \in chosen} \cup {Key(now, l) : l \in chosen}
      Dead(keys) == keys \ SurfaceKeys(x, g)
  IN With(labels \ {l \in labels \ source : Same(l)}, LAMBDA chosen :
     With(RebuildSurface(x, rt, g, disk, chosen, surface), LAMBDA merged :
       [surface |-> [k \in DOMAIN merged \ Dead(Keys(chosen)) |-> merged[k]],
        keys |-> Keys(chosen)]))

-----------------------------------------------------------------------------
(* The static fallback.                                                    *)

HasInstanceFields(entry) ==
  /\ "instance" \in DOMAIN entry
  /\ \E n \in DOMAIN entry["instance"] \ {<<"id">>, <<"pk">>} :
       entry["instance"][n][3] \in {"field", "relation", "reverse_relation"}

FallbackEntry(g, label) ==
  LET node == g.nodes[label]
      fields == Get(g.fields, label, <<>>)
  IN IF \/ fields = <<>>
        \/ node.candidate # <<>> /\ node.candidate[1].abstract
        \/ node.candidate = <<>> /\ ~node.runtime
     THEN <<>>
     ELSE <<[fields |-> {<<f.name, f.kind, f.relation, f.direction, f.target>> : f \in ToSet(fields)},
             only |-> node.candidate = <<>>]>>

BuildFallback(g, surface) ==
  LET Missing(l) == /\ ~(l \in DOMAIN surface /\ HasInstanceFields(surface[l]))
                    /\ FallbackEntry(g, l) # <<>>
  IN [l \in {k \in DOMAIN g.nodes : Missing(k)} |-> FallbackEntry(g, l)[1]]

AffectedNodes(x, g, labels) ==
  (labels \cap DOMAIN g.nodes)
    \cup UNION {{n \in Get(g.byName, ByLabel(x, l).name, {}) :
                   g.nodes[n].candidate # <<>> /\ g.nodes[n].candidate[1].label \in labels}
                : l \in labels \cap Labels(x)}

\* faulty: entries of removed models stay
FallbackOnlyAdded(x, g, surface, fallback, labels, keys) ==
  LET nodes == AffectedNodes(x, g, labels)
  IN [l \in {k \in nodes : FallbackEntry(g, k) # <<>>} |-> FallbackEntry(g, l)[1]] @@ fallback

RebuildFallback(x, g, surface, fallback, labels, keys) ==
  LET nodes == AffectedNodes(x, g, labels)
      Missing(l) == /\ ~(l \in DOMAIN surface /\ HasInstanceFields(surface[l]))
                    /\ FallbackEntry(g, l) # <<>>
  IN Over([l \in {k \in nodes : Missing(k)} |-> FallbackEntry(g, l)[1]],
          [l \in DOMAIN fallback \ (labels \cup keys) |-> fallback[l]])

-----------------------------------------------------------------------------
(* One member, and a chain of members, asked of the daemon.                *)

ItemOf(items, name) == IF name \in DOMAIN items THEN <<items[name]>> ELSE <<>>

DeclaredField(fields, name) ==
  IF HasName(fields, name)
  THEN name :> FieldItem(Last(SelectSeq(fields, LAMBDA f : f.name = name))) ELSE <<>>

DirectItem(x, rt, disk, label, receiver, name, manager) ==
  ItemOf(CASE receiver = "instance" ->
               DeclaredField(Get(x.fields, label, <<>>), name) @@ StaticModelItems(x, disk, label)
                 @@ BuiltinItems(InstanceBuiltins, label, NoManager)
          [] receiver = "model_class" ->
               ManagerItems(x, rt, disk, label) @@ StaticModelItems(x, disk, label)
          [] receiver \in {"manager", "related_manager"} ->
               BuiltinItems(ManagerBuiltins, label, manager) @@ StaticManagerItems(x, disk, label, manager)
          [] receiver = "queryset" ->
               BuiltinItems(QuerysetBuiltins, label, manager) @@ StaticQuerysetItems(x, disk, label, manager),
        name)

\* faulty: the label of the graph is not looked up
ResolveUnmapped(x, rt, g, disk, label, receiver, name, manager) ==
  ItemOf(Surface(x, rt, g, disk, Normalized(x, g, label), receiver, manager), name)

ResolveMember(x, rt, g, disk, label, receiver, name, manager) ==
  LET inner  == Normalized(x, g, label)
      labels == GraphLabels(x, g)
      Mapped(item) == IF item = <<>> THEN <<>> ELSE <<[item[1] EXCEPT !.to = Key(labels, @)]>>
  IN With(DirectItem(x, rt, disk, inner, receiver, name, manager), LAMBDA direct :
       Mapped(IF direct # <<>> THEN direct
              ELSE ItemOf(Surface(x, rt, g, disk, inner, receiver, manager), name)))

\* Where a chain ends: <<label, receiver, manager>>, or <<>> if it breaks.
ResolveChain(x, rt, g, disk, start, names) ==
  LET resolved[at \in Paths \X STRING \X Paths, chain \in Seq(Paths),
               visited \in SUBSET (Paths \X STRING \X Paths)] ==
        LET label == Normalized(x, g, at[1])
            all   == Surface(x, rt, g, disk, label, at[2], at[3])
            name  == chain[1]
            item  == all[name]
            to    == IF item.to = NoLabel THEN label ELSE item.to
            next  == IF item.returns = "manager" /\ item.manager = NoManager THEN name ELSE item.manager
        IN IF chain = <<>> THEN <<Key(GraphLabels(x, g), label), at[2], at[3]>>
           ELSE IF <<label, at[2], name>> \in visited \/ name \notin DOMAIN all THEN <<>>
           ELSE resolved[<<to, item.returns, next>>, Tail(chain), visited \cup {<<label, at[2], name>>}]
  IN resolved[start, names, {}]

=============================================================================
