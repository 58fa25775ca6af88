---------------------------- MODULE StaticReindex ----------------------------
(***************************************************************************)
(* How the index of the workspace comes to be: from all files              *)
(* (Build, build_static_index) or from the index before the edit of one    *)
(* file (Reindex, reindex_single_file), through three paths that reuse     *)
(* more or less of it:                                                     *)
(*   fast     nothing a model depends on changed: the fields are kept;     *)
(*   cached   candidates, bases and imports are unchanged: the candidates  *)
(*            and the direct fields of the other modules are kept, and     *)
(*            when the edit is about scalars only, all relations too;      *)
(*   general  classes are promoted and fields are resolved again.          *)
(* A promotion reads the text of other files, which may be newer than what *)
(* the index knows of them.                                                *)
(***************************************************************************)
EXTENDS StaticIndex

-----------------------------------------------------------------------------
(* Promotion of the classes that inherit an imported model.                *)

Bindings(mods, order) ==
  Concat([i \in DOMAIN order |->
    [k \in DOMAIN mods[order[i]].imports |-> [by |-> order[i], to |-> mods[order[i]].imports[k]]]])

\* The modules that import a symbol, and the name each gives it; re-exports
\* of the same name, explicit or by a star, are followed.
ImportersOf(bindings, c) ==
  LET importers[stack \in Seq(Paths \X STRING), seen \in SUBSET (Paths \X STRING),
                out \in Seq(Paths \X STRING)] ==
        LET top    == Last(stack)
            direct == SelectSeq(bindings, LAMBDA b : /\ ~b.to.star /\ b.to.symbol # ""
                                                     /\ <<b.to.module, b.to.symbol>> = top)
            stars  == SelectSeq(bindings, LAMBDA b : b.to.star /\ b.to.module = top[1])
            names  == [i \in DOMAIN direct |-> <<direct[i].by, direct[i].to.alias>>]
            again  == [i \in DOMAIN stars |-> <<stars[i].by, top[2]>>]
        IN IF stack = <<>> THEN out
           ELSE IF top \in seen THEN importers[Front(stack), seen, out]
           ELSE importers[Front(stack) \o SelectSeq(names, LAMBDA n : n[2] = top[2]) \o again,
                          seen \cup {top}, out \o names \o again]
  IN importers[<<<<c.module, c.name>>>>, {}, <<>>]

\* How far the visits are: the candidates, those found by them, the modules
\* seen, the importers heard of and the modules still to see.
Visits ==
  [all : Seq(CandidateRecords), found : Seq(CandidateRecords), visited : SUBSET Paths,
   importers : Seq(Paths \X STRING), queue : Seq(Paths)]

\* The name a candidate has before its file is read again.
Provisional(mod, class) ==
  Candidate(mod, class, 0, mod.module[1], FALSE, TRUE)

\* One visit of a module, with the names known when it begins: its classes
\* derived from one of them are registered and their importers queued.
VisitModule(mods, bindings, st, m) ==
  LET registered == {<<st.all[i].module, st.all[i].name>> : i \in DOMAIN st.all}
      known == {n[2] : n \in {r \in registered : r[1] = m}}
                 \cup {st.importers[i][2] : i \in {j \in DOMAIN st.importers : st.importers[j][1] = m}}
      found == SelectSeq(mods[m].bases, LAMBDA c :
                 /\ <<m, c.name>> \notin registered
                 /\ \E i \in DOMAIN c.bases : Last(c.bases[i]) \in known)
      added == [i \in DOMAIN found |-> Provisional(mods[m], found[i])]
  IN With(Concat([i \in DOMAIN added |-> ImportersOf(bindings, added[i])]), LAMBDA heard :
       LET visited == st.visited \cup {m}
           queued  == SelectSeq([i \in DOMAIN heard |-> heard[i][1]], LAMBDA q : q \notin visited)
       IN [st EXCEPT !.all = @ \o added, !.found = @ \o added, !.visited = visited,
                     !.importers = @ \o heard, !.queue = Tail(@) \o queued])

\* A module is visited once: what later visits discover does not reopen it.
VisitAll(mods, bindings, begun) ==
  LET visit[st \in Visits] ==
        IF st.queue = <<>> THEN st
        ELSE IF Head(st.queue) \in st.visited THEN visit[[st EXCEPT !.queue = Tail(@)]]
        ELSE visit[VisitModule(mods, bindings, st, Head(st.queue))]
  IN visit[begun]

\* The found class as its file now spells it; the class may have gone.
Corrected(disk, mod, c) ==
  LET text == disk[FileOf(mod)]
  IN With({i \in DOMAIN text.body : text.body[i].op = "class" /\ text.body[i].name = c.name}, LAMBDA at :
       LET i    == CHOOSE j \in at : TRUE
           class == text.body[i]
           app  == AppLabel(class, mod.module)
       IN IF text.state # "ok" \/ at = {} THEN [candidate |-> c, pending |-> <<>>]
          ELSE [candidate |-> Candidate(mod, class, i, app, class.abstract, TRUE),
                pending   |-> PendingFields(mod, text.body, i, class, app, mod.symbols)])

ExpandCandidates(mods, order, disk, initial) ==
  LET bindings == Bindings(mods, order)
      heard == Concat([i \in DOMAIN initial |-> ImportersOf(bindings, initial[i])])
  IN With(VisitAll(mods, bindings,
            [all |-> initial, found |-> <<>>, visited |-> {}, importers |-> heard,
             queue |-> [i \in DOMAIN heard |-> heard[i][1]]]), LAMBDA done :
     LET Now(c) == IF c \in ToSet(done.found) THEN Corrected(disk, mods[c.module], c).candidate ELSE c
         Grown(mod, found) ==
           With(mod.pending \o Concat([i \in DOMAIN found |-> Corrected(disk, mod, found[i]).pending]),
                LAMBDA pending :
             IF found = <<>> THEN mod
             ELSE [mod EXCEPT !.candidates = @ \o [i \in DOMAIN found |-> Now(found[i])],
                              !.pending = pending,
                              !.cimports = IF \E i \in DOMAIN found : Now(found[i]).line # 0
                                           THEN ConstructorImports(pending) ELSE @])
     IN [modules |-> [m \in DOMAIN mods |->
                        Grown(mods[m], SelectSeq(done.found, LAMBDA c : c.module = m))],
         candidates |-> [i \in DOMAIN done.all |-> Now(done.all[i])],
         fresh |-> {c.module : c \in ToSet(done.found)}])

\* Earlier promotions are dropped before they are derived again.
DerivedNames(mod) == {c.name : c \in {d \in ToSet(mod.candidates) : d.derived}}

WithoutPromotions(mod) ==
  LET derived == DerivedNames(mod)
  IN [mod EXCEPT !.candidates = SelectSeq(@, LAMBDA c : c.name \notin derived),
                 !.pending = SelectSeq(@, LAMBDA p : p.label[2] \notin derived)]

-----------------------------------------------------------------------------
(* Dependency graphs of the sources.                                       *)

\* The modules that mention a module, or one of its symbols, in an import.
ImportDependents(x, name) ==
  {m \in DOMAIN x.modules :
     \E i \in DOMAIN x.modules[m].imports :
       LET b == x.modules[m].imports[i]
       IN \/ b.module = name
          \/ b.symbol # "" /\ Append(b.module, b.symbol) = name}

\* The same with the modules whose constructors read a constant of the name.
ConstructorEdges(x) ==
  LET modules == DOMAIN x.modules
      origins == UNION {{Front(r) : r \in x.modules[m].cimports} : m \in modules}
      imported == UNION {UNION {{b.module, Append(b.module, b.symbol)} :
                                  b \in ToSet(x.modules[m].imports)} : m \in modules}
  IN [n \in origins \cup imported |->
        ImportDependents(x, n)
          \cup {m \in modules : \E r \in x.modules[m].cimports : Front(r) = n}]

Reached(next, start) ==
  LET reached[found \in SUBSET Paths] ==
        With(found \cup UNION {next[n] : n \in found \cap DOMAIN next}, LAMBDA more :
          IF more = found THEN found ELSE reached[more])
  IN reached[start]

EdgesOf(x) == IF x.edges = <<>> THEN ConstructorEdges(x) ELSE x.edges[1]

\* faulty: constructors of other modules are not followed
NoConstructorDependents(x, m) == {}

ConstructorDependents(x, m) ==
  {d \in Reached(EdgesOf(x), {m}) \ {m} :
     d \in DOMAIN x.modules /\ x.modules[d].cimports # {}}

LabelsOfModules(x, modules) ==
  {c.label : c \in {d \in ToSet(x.candidates) : d.module \in modules}}

\* faulty: the importers of an edited module are not followed
NoSourceDependents(x, modules) == {}

\* source_dependents: the models of the modules that import, through any
\* chain, one of these.
SourceDependents(x, modules) ==
  LET names == UNION {{b.module, Append(b.module, b.symbol)} :
                        b \in UNION {ToSet(x.modules[m].imports) : m \in DOMAIN x.modules}}
  IN LabelsOfModules(x, Reached([n \in names |-> ImportDependents(x, n)], modules))

\* inheritance_dependents: the models below these.
InheritanceDependents(x, labels) ==
  LET Children(l) == {c.label : c \in {d \in ToSet(x.candidates) : l \in ToSet(x.bases[d.label])}}
  IN Reached([l \in Labels(x) \cup labels |-> Children(l)], labels) \ labels

-----------------------------------------------------------------------------
(* The construction of an index (StaticIndex.__post_init__).               *)

Statistics(mod) ==
  LET stars == Len(SelectSeq(mod.imports, LAMBDA b : b.star))
      Bit(b) == IF b THEN 1 ELSE 0
      again == \E i \in DOMAIN mod.imports : mod.imports[i].star \/ mod.imports[i].symbol # ""
  IN <<Bit(mod.init), Bit(mod.init /\ (again \/ mod.all[1])), stars, Bit(mod.all[1])>>

NoStatistics == <<0, 0, 0, 0>>

StatisticsAt(mods, m) == IF m \in DOMAIN mods THEN Statistics(mods[m]) ELSE NoStatistics

AllStatistics(mods, order) ==
  FoldLeft(LAMBDA sum, m : [i \in 1..4 |-> sum[i] + Statistics(mods[m])[i]], NoStatistics, order)

\* The statistics of the index follow the one module that changed.
StatisticsAfter(source, mods, m) ==
  [i \in 1..4 |-> source.stats[i] + StatisticsAt(mods, m)[i] - StatisticsAt(source.modules, m)[i]]

TargetsOf(fields) ==
  {f.target : f \in {g \in ToSet(fields) : g.relation /\ g.target # NoLabel}}

RelationSources(x, fields) ==
  LET concrete == {l \in DOMAIN fields : IsConcrete(x, l)}
  IN [t \in UNION {TargetsOf(fields[l]) : l \in concrete} |->
        {l \in concrete : t \in TargetsOf(fields[l])}]

FieldsByLabel(forward, reverse) ==
  LET back == Group(reverse)
  IN [l \in DOMAIN forward \cup DOMAIN back |-> Get(forward, l, <<>>) \o Get(back, l, <<>>)]

\* Only the entries of the labels whose fields, or whose concreteness,
\* changed are touched.
PatchedSources(source, x, fields) ==
  LET labels == DOMAIN fields \cup DOMAIN source.fields
  IN With({l \in labels : \/ Get(fields, l, <<>>) # Get(source.fields, l, <<>>)
                          \/ l \in DOMAIN fields /\ IsConcrete(x, l) # IsConcrete(source, l)}, LAMBDA moved :
       LET Before(l) == TargetsOf(Get(source.fields, l, <<>>))
           After(l)  == IF IsConcrete(x, l) THEN TargetsOf(Get(fields, l, <<>>)) ELSE {}
           touched == UNION {Before(l) \cup After(l) : l \in moved}
           Sources(t) ==
             LET gone == {l \in moved : t \in Before(l) \cup After(l)}
             IN (Get(source.sources, t, {}) \ gone) \cup {l \in moved : t \in After(l)}
           kept == {t \in DOMAIN source.sources \cup touched :
                      IF t \in touched THEN Sources(t) # {} ELSE TRUE}
       IN [t \in kept |-> IF t \in touched THEN Sources(t) ELSE source.sources[t]])

ChangedLabels(before, after) ==
  {l \in DOMAIN before \cup DOMAIN after : Get(before, l, <<>>) # Get(after, l, <<>>)}

\* The direct fields of all modules, each computed once or taken over.
AllDirect(x, disk, source) ==
  LET declaring == {m \in DOMAIN x.modules : x.modules[m].pending # <<>>}
  IN [m \in DOMAIN x.direct \cup declaring |->
        IF m \in DOMAIN x.modules THEN DirectModuleFields(x, disk, source, m) ELSE x.direct[m]]

Independent(x, direct, kept) ==
  (kept \cap DOMAIN x.direct)
    \cup {m \in DOMAIN direct \ DOMAIN x.direct : IsIndependent(x.modules[m], direct[m])}

\* General resolution: promotions excepted, nothing is assumed unchanged.
Resolved(x, disk, source, kept) ==
  With(AllDirect(x, disk, source), LAMBDA direct :
    LET Full(m) == IF m \in DOMAIN direct /\ x.modules[m].pending # <<>> THEN direct[m] ELSE <<>>
    IN With(GeneralFields(x, [m \in DOMAIN x.modules |-> Full(m)]), LAMBDA general :
         LET fields  == FieldsByLabel(general.forward, general.reverse)
         IN [x EXCEPT !.direct = direct, !.indep = Independent(x, direct, kept),
                      !.forward = general.forward, !.reverse = general.reverse,
                      !.fields = fields,
                      !.sources = IF source.modules = <<>> THEN RelationSources(x, fields)
                                  ELSE PatchedSources(source, x, fields),
                      !.changed = IF source.modules = <<>> THEN <<>>
                                  ELSE <<ChangedLabels(source.fields, fields)>>]))

-----------------------------------------------------------------------------
(* The shortcut for edits of scalar fields.                                *)

\* Standalone models only, and no added name that hides a relation.
IsScalarEdit(x, source, scalar) ==
  LET mods    == {x.modules[m] : m \in scalar.modules}
      labels  == UNION {{c.label : c \in ToSet(mod.candidates)} : mod \in mods}
      Known(l, n) == SelectSeq(Get(source.fields, l, <<>>), LAMBDA f : f.name = n)
      relations == UNION {{f.name : f \in {g \in ToSet(Get(source.fields, l, <<>>)) : g.relation}} :
                            l \in labels}
      added == {p.name : p \in {q \in UNION {ToSet(mod.pending) : mod \in mods} :
                 LET old == Known(q.label, q.name)
                 IN old = <<>> \/ (Last(old).relation /\ ~q.relation)}}
  IN /\ scalar.modules # {}
     /\ Len(x.candidates) = Cardinality(Labels(x))
     /\ ~\E i \in DOMAIN source.candidates :
           LET c == source.candidates[i]
           IN \/ c.label \in labels /\ (c.abstract \/ source.bases[c.label] # <<>>)
              \/ ToSet(source.bases[c.label]) \cap labels # {}
     /\ relations \cap added = {}

\* A helper's edit is indirect: the resolved fields decide, not the syntax.
KeepsRelations(source, scalar, direct, labels) ==
  LET Key(f)  == <<f.label, f.name>>
      before  == UNION {ToSet(Get(source.forward, l, <<>>)) : l \in labels}
      after   == UNION {ToSet(direct[m]) : m \in scalar.modules \cap DOMAIN direct}
      gone    == {f \in before : Key(f) \notin {Key(g) : g \in after}}
  IN scalar.one \/ \A f \in (after \ before) \cup gone :
                     ~f.relation /\ f.name \notin {<<"id">>, <<"pk">>}

\* _resolve_fields with the shortcut; relations and reverses are kept.
ScalarResolved(x, disk, source, scalar) ==
  With([m \in scalar.modules \cup DOMAIN x.direct |->
          IF m \in scalar.modules THEN DirectModuleFields(x, disk, source, m)
          ELSE x.direct[m]], LAMBDA direct :
    LET labels == UNION {{c.label : c \in ToSet(x.modules[m].candidates)} : m \in scalar.modules}
        own    == Group(Concat([i \in DOMAIN x.order |->
                    IF x.order[i] \in scalar.modules THEN direct[x.order[i]] ELSE <<>>]))
        forward == [l \in (DOMAIN source.forward \ labels) \cup (DOMAIN own \cap labels) |->
                      IF l \in labels THEN own[l] ELSE source.forward[l]]
        Now(l) == Get(own, l, <<>>) \o SelectSeq(Get(source.fields, l, <<>>),
                                                LAMBDA f : f.direction = "reverse")
        fields == [l \in (DOMAIN source.fields \ labels) \cup {k \in labels : Now(k) # <<>>} |->
                      IF l \in labels THEN Now(l) ELSE source.fields[l]]
    IN With(Resolved([x EXCEPT !.direct = direct], disk, source,
                     (source.indep \cap DOMAIN x.direct) \cup {m \in scalar.modules :
                                          IsIndependent(x.modules[m], direct[m])}), LAMBDA general :
         IF ~KeepsRelations(source, scalar, direct, labels) THEN general
         ELSE [x EXCEPT !.direct = direct, !.indep = Independent(x, direct, source.indep),
                        !.forward = forward, !.reverse = source.reverse, !.fields = fields,
                        !.sources = source.sources,
                        !.changed = <<{l \in labels : Now(l) # Get(source.fields, l, <<>>)}>>]))

-----------------------------------------------------------------------------
(* The two ways to an index.                                               *)

NoScalar == [one |-> TRUE, modules |-> {}]

EmptyIndex ==
  [modules |-> <<>>, order |-> <<>>, origins |-> <<>>, bad |-> {}, shadowed |-> {}, count |-> 0,
   stats |-> NoStatistics, candidates |-> <<>>, bases |-> <<>>, direct |-> <<>>, indep |-> {},
   forward |-> <<>>, reverse |-> <<>>, fields |-> <<>>, sources |-> <<>>,
   changed |-> <<>>, edges |-> <<>>, fresh |-> {}, members |-> <<>>]

WithBases(x) ==
  [x EXCEPT !.bases = [l \in Labels(x) |-> ModelBaseLabels(x, ByLabel(x, l))]]

\* Promote, resolve the bases, then the fields: nothing is taken over but the
\* direct fields of modules that are the same and depend on no other.
GeneralIndex(x, disk, source) ==
  LET mods  == [m \in DOMAIN x.modules |-> WithoutPromotions(x.modules[m])]
      plain == Concat([i \in DOMAIN x.order |-> mods[x.order[i]].candidates])
  IN With(ExpandCandidates(mods, x.order, disk, plain), LAMBDA grown :
       LET copied == {m \in DOMAIN x.modules : DerivedNames(x.modules[m]) # {}}
           y == [x EXCEPT !.modules = grown.modules, !.candidates = grown.candidates,
                          !.direct = <<>>, !.fresh = @ \cup grown.fresh \cup copied]
       IN Resolved(WithBases(y), disk, source, {}))

EmptyScan == [modules |-> <<>>, order |-> <<>>, bad |-> {}, shadowed |-> {}]

\* The slots of the scan: a package wins over the module file beside it.
ScanFile(disk, acc, f) ==
  With(BuildModuleIndex(f, disk[f].body), LAMBDA mod :
    CASE disk[f].state = "absent" -> acc
      [] disk[f].state = "broken" -> [acc EXCEPT !.bad = @ \cup {f}]
      [] OTHER ->
           IF f.module \notin DOMAIN acc.modules
           THEN [acc EXCEPT !.modules = (f.module :> mod) @@ @, !.order = Append(@, f.module)]
           ELSE IF f.init /\ ~acc.modules[f.module].init
           THEN [acc EXCEPT !.modules = (f.module :> mod) @@ @,
                            !.shadowed = @ \cup {Sibling(f)}]
           ELSE [acc EXCEPT !.shadowed = @ \cup {f}])

Build(disk) ==
  With(FoldLeft(LAMBDA acc, f : ScanFile(disk, acc, f), EmptyScan, SourceFiles), LAMBDA scan :
    With([EmptyIndex EXCEPT !.modules = scan.modules, !.order = scan.order,
                      !.bad = scan.bad, !.shadowed = scan.shadowed,
                      !.origins = Origins(scan.modules),
                      !.count = Cardinality({f \in Files : disk[f].state # "absent"}),
                      !.stats = AllStatistics(scan.modules, scan.order)], LAMBDA x :
      [GeneralIndex(x, disk, EmptyIndex) EXCEPT !.fresh = {}]))

\* What the models, the fields and the names of a module rest on.
SameResolution(old, new) ==
  /\ old.candidates = new.candidates
  /\ old.bases = new.bases
  /\ old.fieldClasses = new.fieldClasses
  /\ old.aliases = new.aliases
  /\ old.imports = new.imports
  /\ old.all = new.all

\* A module that only holds helpers comes or goes without a trace.
IsHelper(mod) ==
  /\ mod.candidates = <<>> /\ mod.pending = <<>> /\ mod.bases = <<>>
  /\ mod.fieldClasses = {} /\ DOMAIN mod.aliases = {} /\ mod.imports = <<>>

\* One of the two modules may be missing.
ResolutionUnchanged(olds, news) ==
  IF olds = {} \/ news = {} THEN \A mod \in olds \cup news : IsHelper(mod)
  ELSE \A old \in olds, new \in news : SameResolution(old, new)

ModelsUnchanged(olds, news) ==
  /\ ResolutionUnchanged(olds, news)
  /\ \A old \in olds, new \in news : old.pending = new.pending

\* The edit of a slot: what the file, and its sibling if the slot is shared,
\* make of the module.
Slot(x, disk, f) ==
  LET m      == f.module
      olds   == {x.modules[n] : n \in DOMAIN x.modules \cap {m}}
      shared == Exists(disk, Sibling(f)) \/ \E o \in olds : o.init # f.init
      pair   == IF shared THEN {f, Sibling(f)} ELSE {f}
      live   == {g \in pair : Exists(disk, g)}
      kept   == {g \in live : shared /\ g # f /\ \E o \in olds : o.init = g.init}
      bad    == {g \in live \ kept : disk[g].state = "broken"}
      fit    == live \ bad
      owner  == IF \E g \in fit : g.init THEN {g \in fit : g.init} ELSE fit
      News(g) == IF g \in kept THEN x.modules[m] ELSE BuildModuleIndex(g, disk[g].body)
  IN [olds |-> olds, news |-> {News(g) : g \in owner},
      failed |-> ~shared /\ bad # {},
      kept |-> owner # {} /\ owner \subseteq kept,
      bad |-> (x.bad \ pair) \cup bad, shadowed |-> (x.shadowed \ pair) \cup (fit \ owner)]

\* Scalar declarations of the one edited module, and no primary key in it.
EditedScalar(slot, f, disk) ==
  LET old == CHOOSE o \in slot.olds : TRUE
      new == CHOOSE n \in slot.news : TRUE
      Key(p) == <<p.label, p.name>>
      before == ToSet(old.pending)
      after  == ToSet(new.pending)
      changes == (after \ before) \cup {p \in before : Key(p) \notin {Key(q) : q \in after}}
  IN /\ slot.olds # {} /\ slot.news # {}
     /\ changes # {}
     /\ {p \in before : p.relation} = {p \in after : p.relation}
     /\ \A p \in changes : ~p.relation /\ p.name \notin {<<"id">>, <<"pk">>}
     /\ \A i \in DOMAIN disk[f].body :
          disk[f].body[i].op = "class" => \A k \in DOMAIN disk[f].body[i].fields : ~disk[f].body[i].fields[k].pk

\* The modules whose scalar fields the edit may change, if it is such an edit.
ScalarScope(x, slot, f, disk, dependents) ==
  LET indirect == /\ dependents # {}
                  /\ ModelsUnchanged(slot.olds, slot.news)
                  /\ \A d \in dependents : \A p \in ToSet(x.modules[d].pending) :
                       p.imports # {} => ~p.relation /\ ~p.pk /\ p.name \notin {<<"id">>, <<"pk">>}
  IN IF indirect THEN [one |-> FALSE, modules |-> dependents]
     ELSE IF dependents = {} /\ EditedScalar(slot, f, disk) THEN [one |-> TRUE, modules |-> {f.module}]
     ELSE NoScalar

\* The dict of modules after the edit; a module that returns goes to its end.
Placed(x, m, news) ==
  LET mods == IF news = {} THEN [n \in DOMAIN x.modules \ {m} |-> x.modules[n]]
              ELSE (m :> CHOOSE n \in news : TRUE) @@ x.modules
  IN [x EXCEPT !.modules = mods, !.origins = Origins(mods),
               !.order = IF news = {} THEN SelectSeq(@, LAMBDA n : n # m)
                         ELSE IF m \in DOMAIN x.modules THEN @ ELSE Append(@, m)]

\* The edges survive an edit that leaves the imports of its module alone.
KeptEdges(x, mods, m) ==
  LET Of(all, n) == IF n \in DOMAIN all THEN <<all[n].imports, all[n].cimports>> ELSE <<<<>>, {}>>
  IN IF Of(x.modules, m) = Of(mods, m) THEN <<EdgesOf(x)>> ELSE <<>>

LabelsOf(mods) == UNION {{c.label : c \in ToSet(mod.candidates)} : mod \in mods}

\* reindex_single_file: the new index with the labels the file had and has.
Reindex(x, disk, f) ==
  LET m == f.module
      dependents == ConstructorDependents(x, m)
      Start(slot, base) ==
        [base EXCEPT !.bad = slot.bad, !.shadowed = slot.shadowed,
                     !.fresh = IF slot.kept THEN {} ELSE {m},
                     !.count = Cardinality(DOMAIN base.modules) + Cardinality(slot.bad)
                                 + Cardinality(slot.shadowed)]
      Reused(start) ==
        [start EXCEPT !.direct = [n \in (DOMAIN x.direct \cap DOMAIN start.modules)
                                            \ (dependents \cup {m}) |-> x.direct[n]]]
      Same(slot) == ~slot.failed /\ ResolutionUnchanged(slot.olds, slot.news)
      Patched(slot, start, reused, scalar) ==
        IF ~slot.failed /\ dependents = {} /\ ModelsUnchanged(slot.olds, slot.news)
        THEN [start EXCEPT !.changed = <<{}>>]
        ELSE IF Same(slot) /\ IsScalarEdit(reused, x, scalar)
        THEN ScalarResolved(reused, disk, x, scalar)
        ELSE IF Same(slot) THEN Resolved(reused, disk, x, x.indep)
        ELSE GeneralIndex(start, disk, x)
  IN With(Slot(x, disk, f), LAMBDA slot :
     With(Start(slot, Placed(x, m, slot.news)), LAMBDA start :
     With(Patched(slot, start, Reused(start), ScalarScope(start, slot, f, disk, dependents)), LAMBDA index :
       [index |-> [index EXCEPT !.stats = StatisticsAfter(x, index.modules, m),
                                !.edges = KeptEdges(x, index.modules, m), !.fresh = {}],
        old |-> IF slot.kept THEN {} ELSE LabelsOf(slot.olds),
        new |-> IF slot.kept THEN {} ELSE LabelsOf(slot.news)])))

=============================================================================
