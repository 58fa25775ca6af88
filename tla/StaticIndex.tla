----------------------------- MODULE StaticIndex -----------------------------
(***************************************************************************)
(* The workspace index (static_index/indexer.py): what the names, bases    *)
(* and fields of all files resolve to, how the index is built from the     *)
(* files (build_static_index) and how it is patched after the edit of one  *)
(* file (reindex_single_file).                                             *)
(*                                                                         *)
(* A file is [module, init]: pkg/mod.py and pkg/mod/__init__.py are the    *)
(* two files of one module.  The text of a file is [state, body]: absent,  *)
(* broken (unreadable or unparsable), or ok with its statements.           *)
(*                                                                         *)
(* An index is a record:                                                   *)
(*   modules, order  the modules and the order of their dict               *)
(*   bad, shadowed   unparseable files; files whose sibling owns the slot  *)
(*   origins         _export_origin_cache, of all names: what a name of a  *)
(*                   module leads to                                       *)
(*   count, stats    python_file_count and the four statistics             *)
(*   candidates      the model candidates, in order                        *)
(*   bases           label -> resolved base labels                         *)
(*   direct, indep   _direct_fields_by_module, _independent_field_modules  *)
(*   forward, reverse, fields, sources   the resolved fields               *)
(*   changed         <<_changed_field_labels>>, or <<>> after a full build *)
(*   edges           <<_constructor_dependency_cache>>, or <<>> while it   *)
(*                   is not computed                                       *)
(*   members         <<_runtime_member_snapshot>>, or <<>> without one     *)
(*   fresh           the modules that are new objects, during one edit     *)
(* Only StaticReindex, which extends this module, makes such a record.     *)
(* The other memo tables are left out: in a workspace without import       *)
(* cycles they only save time.  So are the overlapping import roots, the   *)
(* profiles, the cached loads and the pool that parses files.              *)
(***************************************************************************)
EXTENDS StaticModule

CONSTANT
  SourceFiles      \* the files of the workspace, in the order of the scan

Files == ToSet(SourceFiles)

Absent   == [state |-> "absent", body |-> <<>>]
Broken   == [state |-> "broken", body |-> <<>>]
Text(b)  == [state |-> "ok", body |-> b]

Sibling(f) == [f EXCEPT !.init = ~f.init]

Exists(disk, f) == f \in Files /\ disk[f].state # "absent"

FileOf(mod) == [module |-> mod.module, init |-> mod.init]

-----------------------------------------------------------------------------
(* Names across modules.                                                   *)

Unresolved == [module |-> <<>>, symbol |-> ""]

Origin(m, s) == [module |-> m, symbol |-> s]

\* What `from m import *` and `from m import name` see: own names, then the
\* imports in order, a star import never hiding a name already there.
Exports(mods, module) ==
  LET exported[m \in Paths, stack \in SUBSET Paths] ==
        LET mod   == mods[m]
            Of(n) == exported[n, stack \cup {m}]
            Bind(out, b) ==
              IF b.star
              THEN With(Of(b.module), LAMBDA star : out @@ [n \in DOMAIN star \ Private |-> star[n]])
              ELSE With(IF b.symbol = "" THEN <<>> ELSE Of(b.module), LAMBDA nested :
                     (b.alias :> Get(nested, b.symbol, Origin(b.module, b.symbol))) @@ out)
        IN With(FoldLeft(Bind, [n \in mod.symbols |-> Origin(m, n)], mod.imports), LAMBDA names :
             LET public == IF mod.all[1] THEN mod.all[2] \cap DOMAIN names ELSE DOMAIN names \ Private
             IN IF m \in stack \/ m \notin DOMAIN mods THEN <<>>
                ELSE [n \in public |-> names[n]])
  IN exported[module, {}]

\* A name that the module does not export, followed import by import.
DirectAttribute(mods, module, symbol) ==
  LET attribute[m \in Paths, s \in STRING, stack \in SUBSET (Paths \X STRING)] ==
        LET mod == mods[m]
            Follow(b) ==
              IF b.star THEN Get(Exports(mods, b.module), s, Unresolved)
              ELSE IF b.alias # s THEN Unresolved
              ELSE IF b.symbol = "" THEN Origin(b.module, "")
              ELSE With(attribute[b.module, b.symbol, stack \cup {<<m, s>>}], LAMBDA nested :
                     IF /\ nested = Unresolved
                        /\ b.module \in DOMAIN mods
                        /\ b.symbol \in mods[b.module].symbols
                     THEN Origin(b.module, b.symbol) ELSE nested)
            hits == SelectSeq(mod.imports, LAMBDA b : Follow(b) # Unresolved)
        IN IF <<m, s>> \in stack \/ m \notin DOMAIN mods THEN Unresolved
           ELSE IF s \in mod.symbols THEN Origin(m, s)
           ELSE IF hits = <<>> THEN Unresolved
           ELSE Follow(hits[1])
  IN attribute[module, symbol, {}]

\* Where each name of each module comes from; any other name is unresolved.
Origins(mods) ==
  LET Imported(b) == IF b.star THEN DOMAIN Exports(mods, b.module) ELSE {b.alias}
      Names(m) == mods[m].symbols \cup UNION {Imported(b) : b \in ToSet(mods[m].imports)}
      Of(m) == With(Exports(mods, m), LAMBDA exports :
                 [n \in Names(m) |-> Get(exports, n, DirectAttribute(mods, m, n))])
  IN [m \in DOMAIN mods |-> Once(Of(m))]

\* Only a plain name can be exported; a dotted one never resolves.
ResolveOrigin(x, m, ref) ==
  IF Len(ref) # 1 THEN Unresolved ELSE Get(Get(x.origins, m, <<>>), ref[1], Unresolved)

-----------------------------------------------------------------------------
(* Candidates, bases and relation targets.                                 *)

Labels(x) == {x.candidates[i].label : i \in DOMAIN x.candidates}

\* A dict built over the candidates keeps the last one of a label.
ByLabel(x, label) == Last(SelectSeq(x.candidates, LAMBDA c : c.label = label))

IsConcrete(x, label) == label \in Labels(x) /\ ~ByLabel(x, label).abstract

LabelAt(x, m, name) ==
  LET hits == SelectSeq(x.candidates, LAMBDA c : c.module = m /\ c.name = name)
  IN IF hits = <<>> THEN NoLabel ELSE Last(hits).label

SameApp(x, app, name) == SelectSeq(x.candidates, LAMBDA c : c.app = app /\ c.name = name)

Named(x, name) == SelectSeq(x.candidates, LAMBDA c : c.name = name)

OnlyLabel(hits) == IF Len(hits) = 1 THEN hits[1].label ELSE NoLabel

FirstLabel(labels) ==
  LET known == SelectSeq(labels, LAMBDA l : l # NoLabel)
  IN IF known = <<>> THEN NoLabel ELSE known[1]

OriginLabel(x, origin) ==
  IF origin.symbol = "" THEN NoLabel ELSE LabelAt(x, origin.module, origin.symbol)

\* The model a base class names: in this file, through a dotted path, through
\* the imports, and at last the only model of that name in the app or at all.
ModelBaseLabel(x, m, app, ref) ==
  LET name == Last(ref)
      path == Front(ref)
      via  == ResolveOrigin(x, m, path)
      plain == Len(ref) = 1
  IN IF ref = <<>> \/ IsBuiltinModelBase(ref) THEN NoLabel
     ELSE IF plain
     THEN FirstLabel(<<LabelAt(x, m, name), OriginLabel(x, ResolveOrigin(x, m, ref)),
                       OnlyLabel(SameApp(x, app, name)), OnlyLabel(Named(x, name))>>)
     ELSE FirstLabel(<<LabelAt(x, path, name),
                       IF via = Unresolved THEN NoLabel ELSE LabelAt(x, via.module, name)>>)

ModelBaseLabels(x, c) ==
  LET Add(labels, ref) ==
        LET l == ModelBaseLabel(x, c.module, c.app, ref)
        IN IF l = NoLabel \/ l \in ToSet(labels) THEN labels ELSE Append(labels, l)
  IN FoldLeft(Add, <<>>, c.bases)

\* The model a relation declares, by "self", a label, a name of the same app
\* or a class of the source.
RelatedModelLabel(x, p) ==
  LET name == Last(p.to.value)
  IN CASE p.to.kind = "self"  -> p.label
       [] p.to.kind = "label" -> p.to.value
       [] p.to.kind = "same_app_name" -> <<p.app, name>>
       [] p.to.kind = "symbol" ->
            FirstLabel(<<LabelAt(x, p.module, name),
                         OriginLabel(x, ResolveOrigin(x, p.module, p.to.value)),
                         OnlyLabel(SameApp(x, p.app, name)), OnlyLabel(Named(x, name))>>)
       [] OTHER -> NoLabel

-----------------------------------------------------------------------------
(* Field classes across modules.                                           *)

\* The name, as the module spells it, reaches a field class: a plain name is
\* the class of the module itself, which a base or an import may lead on.
FieldRefResolves(x, module, spelled) ==
  LET resolves[m \in Paths, ref \in Paths, stack \in SUBSET (Paths \X STRING)] ==
        LET mod    == x.modules[m]
            path   == Front(ref)
            name   == Last(ref)
            inner  == stack \cup {<<m, name>>}
            bases  == {c.bases : c \in {d \in ToSet(mod.bases) : d.name = name}}
            origin == ResolveOrigin(x, m, ref)
            via    == ResolveOrigin(x, m, path)
            nested == Append(via.module, via.symbol)
            IsFieldClass ==
              IF IsDjangoModelModule(m) THEN IsPotentialField(name)
              ELSE IF <<m, name>> \in stack \/ m \notin DOMAIN x.modules THEN FALSE
              ELSE \/ name \in DOMAIN mod.aliases \/ name \in mod.fieldClasses
                   \/ \E refs \in bases : \E i \in DOMAIN refs : resolves[m, refs[i], inner]
                   \/ /\ origin.symbol # ""
                      /\ origin # Origin(m, name)
                      /\ resolves[origin.module, <<origin.symbol>>, inner]
        IN IF ref = <<>> THEN FALSE
           ELSE IF Len(ref) = 1 THEN IsFieldClass
           ELSE IF IsDjangoNamespace(path, IF m \in DOMAIN x.modules THEN mod.imports ELSE <<>>)
           THEN IsPotentialField(name)
           ELSE IF path \in DOMAIN x.modules THEN resolves[path, <<name>>, stack]
           ELSE IF via = Unresolved THEN FALSE
           ELSE IF via.symbol = "" THEN resolves[via.module, <<name>>, stack]
           ELSE nested \in DOMAIN x.modules /\ resolves[nested, <<name>>, stack]
  IN resolves[module, spelled, {}]

IsFieldDeclaration(x, p) ==
  \/ p.module \in DOMAIN x.modules /\ FieldKind(p.call, x.modules[p.module]) # ""
  \/ FieldRefResolves(x, p.module, p.call)

-----------------------------------------------------------------------------
(* The constants that constructors import.                                 *)

\* The value of a module's name at the end of the module, read from the file
\* the index gives that module: another file than the one just edited.
ImportedConstant(x, disk, name) ==
  LET constant[ref \in Paths, visited \in SUBSET Paths] ==
        LET m    == Front(ref)
            mod  == x.modules[m]
            text == disk[FileOf(mod)]
        IN With(Capture(m, mod.init, text.body, Len(text.body) + 1, <<Last(ref)>>), LAMBDA value :
             IF ref \in visited \/ m \notin DOMAIN x.modules THEN <<>>
             ELSE IF text.state # "ok" THEN <<>>
             ELSE CASE value.is = "literal" -> <<value.value>>
                    [] value.is = "import"  -> constant[value.ref, visited \cup {ref}]
                    [] OTHER -> <<>>)
  IN constant[name, {}]

ConstantSignatures(x, disk, p) == {<<ref, ImportedConstant(x, disk, ref)>> : ref \in p.imports}

-----------------------------------------------------------------------------
(* Direct, inherited and reverse fields.                                   *)

Field(x, disk, p) ==
  LET signatures == ConstantSignatures(x, disk, p)
  IN [label |-> p.label, name |-> p.name, module |-> p.module, init |-> p.init, line |-> p.line,
      kind |-> <<p.kind>>, relation |-> p.relation,
      direction |-> IF p.relation THEN "forward" ELSE "",
      target |-> IF p.relation THEN RelatedModelLabel(x, p) ELSE NoLabel,
      declared |-> p.label, rname |-> p.rname, rquery |-> p.rquery, source |-> "static",
      ctor |-> <<p.ctor, signatures>>]

\* Local metadata alone decides these fields: no coverage of other modules,
\* no imported constant, no relation target that must be looked up.
IsIndependent(mod, fields) ==
  /\ Len(fields) = Len(mod.pending)
  /\ \A i \in DOMAIN fields :
       /\ fields[i].label = mod.pending[i].label
       /\ fields[i].name = mod.pending[i].name
       /\ mod.pending[i].imports = {}
       /\ FieldKind(mod.pending[i].call, mod) # ""
       /\ mod.pending[i].relation => mod.pending[i].to.kind \in {"label", "self"}

\* The module is the very object of the source index: not the edited one and
\* not cloned to take or to drop a promoted class.
IsSameModule(x, source, m) ==
  /\ m \in DOMAIN source.modules
  /\ m \notin x.fresh
  /\ source.modules[m] = x.modules[m]

\* _resolve_direct_module_fields: cached fields, else those of an unchanged
\* independent module, else each declaration, an unchanged scalar one reused.
DirectModuleFields(x, disk, source, m) ==
  LET mod    == x.modules[m]
      before == Get(source.modules, m, mod)
      previous == IF m \in DOMAIN source.modules THEN Get(source.direct, m, <<>>) ELSE <<>>
      reusable == /\ m \in DOMAIN source.modules
                  /\ before.imports = mod.imports
                  /\ before.aliases = mod.aliases
                  /\ before.fieldClasses = mod.fieldClasses
      Old(p) == SelectSeq(previous, LAMBDA f : f.label = p.label /\ f.name = p.name)
      IsReused(p) == /\ reusable /\ ~p.relation /\ p.imports = {}
                     /\ p \in ToSet(before.pending)
                     /\ FieldKind(p.call, mod) # ""
                     /\ Old(p) # <<>>
      Resolve(p) == IF IsReused(p) THEN <<Last(Old(p))>>
                    ELSE IF IsFieldDeclaration(x, p) THEN <<Field(x, disk, p)>> ELSE <<>>
  IN IF m \in DOMAIN x.direct THEN x.direct[m]
     ELSE IF /\ IsSameModule(x, source, m)
             /\ m \in DOMAIN source.direct
             /\ m \in source.indep \/ IsIndependent(mod, previous)
     THEN previous
     ELSE Concat([i \in DOMAIN mod.pending |-> Resolve(mod.pending[i])])

\* The fields of the bases that the class and earlier bases do not define.
Inherit(label, direct, hidden, inherited) ==
  LET Add(fields, f) ==
        IF f.name \in hidden \cup {fields[i].name : i \in DOMAIN fields} THEN fields
        ELSE Append(fields, [f EXCEPT !.label = label])
  IN direct \o FoldLeft(Add, <<>>, inherited)

Expanded(bases, direct, hidden, model) ==
  LET fields[label \in Paths, stack \in SUBSET Paths] ==
        LET own   == Get(direct, label, <<>>)
            names == Get(hidden, label, {}) \cup {own[i].name : i \in DOMAIN own}
            up    == Get(bases, label, <<>>)
        IN IF label \in stack THEN <<>>
           ELSE IF up = <<>> THEN own
           ELSE Inherit(label, own, names,
                  Concat([i \in DOMAIN up |-> fields[up[i], stack \cup {label}]]))
  IN fields[model, {}]

IsHidden(name) == name # <<>> /\ Last(name) = "+"

\* A relation inherited from a concrete parent belongs to the parent.
ReverseOwner(x, label, declared) ==
  IF declared # label /\ IsConcrete(x, declared) THEN declared ELSE label

ReverseName(f, owner) ==
  IF f.rname # <<>> THEN f.rname
  ELSE IF f.kind = <<"OneToOneField">> THEN <<Lower[owner[2]]>>
  ELSE <<Lower[owner[2]], "set">>

ReverseQueryName(f, owner) ==
  IF IsHidden(f.rname) \/ IsHidden(f.rquery) THEN <<>>
  ELSE IF f.rquery # <<>> THEN f.rquery
  ELSE IF f.rname # <<>> THEN f.rname
  ELSE <<Lower[owner[2]]>>

ReverseField(f, owner) ==
  [f EXCEPT !.label = f.target, !.name = ReverseName(f, owner), !.kind = <<"reverse", f.kind[1]>>,
            !.direction = "reverse", !.target = owner, !.rquery = ReverseQueryName(f, owner),
            !.ctor = <<>>]

\* One reverse field per target, name and owner, over the concrete models.
DirectReverse(x, forward) ==
  LET Add(out, f) ==
        LET owner == ReverseOwner(x, f.label, f.declared)
            r     == ReverseField(f, owner)
        IN IF \/ ~f.relation \/ f.target = NoLabel \/ IsHidden(r.name)
              \/ \E i \in DOMAIN out : /\ out[i].label = r.label /\ out[i].name = r.name
                                       /\ out[i].target = r.target
           THEN out ELSE Append(out, r)
      concrete == SelectSeq(x.candidates, LAMBDA c : ~c.abstract)
  IN FoldLeft(Add, <<>>, Concat([i \in DOMAIN concrete |-> forward[concrete[i].label]]))

Group(fields) ==
  [l \in {fields[i].label : i \in DOMAIN fields} |-> SelectSeq(fields, LAMBDA f : f.label = l)]

NamesOf(fields) == {fields[i].name : i \in DOMAIN fields}

\* A label declared by two files keeps the declarations of the last one.
DirectByLabel(x, direct) ==
  LET all == Concat([i \in DOMAIN x.order |-> direct[x.order[i]]])
      Copies(l) == Len(SelectSeq(x.candidates, LAMBDA c : c.label = l))
      Owned(f) == Copies(f.label) > 1 => FileOf(ByLabel(x, f.label)) = FileOf(f)
  IN Group(SelectSeq(all, Owned))

\* _resolve_fields, the general path.
GeneralFields(x, direct) ==
  LET own     == DirectByLabel(x, direct)
  IN With([l \in Labels(x) |-> Expanded(x.bases, own, <<>>, l)], LAMBDA forward :
       LET hidden  == [l \in Labels(x) |-> NamesOf(forward[l])]
       IN With(Group(DirectReverse(x, forward)), LAMBDA back :
            LET reverse == [l \in Labels(x) |-> Expanded(x.bases, back, hidden, l)]
                All(f)  == Concat([i \in DOMAIN x.candidates |-> f[x.candidates[i].label]])
            IN [forward |-> Group(All(forward)), reverse |-> All(reverse)]))

=============================================================================
