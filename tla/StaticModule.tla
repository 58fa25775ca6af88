---------------------------- MODULE StaticModule ----------------------------
(***************************************************************************)
(* One parsed source file (static_index/indexer.py, _build_module_index)   *)
(* and the constants its field declarations depend on                      *)
(* (static_index/field_declarations.py).                                   *)
(*                                                                         *)
(* Names.  A dotted Python name is a sequence of strings.  A model label   *)
(* "shop.Book" is <<"shop", "Book">>.  A field name is a sequence too:     *)
(* <<"author">>, its attname <<"author", "id">> and a default reverse      *)
(* accessor <<"book", "set">> are joined in the code with "_".  "" and     *)
(* <<>> stand for None.                                                    *)
(*                                                                         *)
(* Source.  The text of a file is a sequence of statements; each is a      *)
(* record whose field op is                                                *)
(*   "class"  name, bases, app, abstract, fields, members                  *)
(*   "def"    name                                                         *)
(*   "alias"  name, value      name = a.dotted.name                        *)
(*   "const"  name, value      name = <a literal>                          *)
(*   "all"    names            __all__ = [...]                             *)
(*   "import" module, alias    import module [as alias]                    *)
(*   "from"   module, level, symbol, alias ("*" is the star import)        *)
(* A field declaration is [name, call, to, rname, rquery, opt, arg, pk]:   *)
(* call is the constructor's name, to the related model it names, opt its  *)
(* literal arguments, arg a dotted name among them, pk whether it carries  *)
(* the primary_key option.  A file has no two classes of one name.         *)
(* TYPE_CHECKING guards, columns and mutated containers are left out.      *)
(***************************************************************************)
EXTENDS Naturals, SequencesExt

CONSTANTS
  FieldNames,      \* class names that look like a field: Django's, or *Field
  ModelBaseNames,  \* base names that look like a model's: *Model, Page, ...
  Private,         \* the names that start with an underscore
  Lower            \* str.lower on the object names of the models

DjangoRoots == { <<"django", "db", "models">>,
                 <<"django", "contrib", "postgres", "fields">>,
                 <<"django", "contrib", "gis", "db", "models">> }

ModelNamespaces == { <<"django", "db">>, <<"django", "contrib", "gis", "db">> }

ExternalFieldNames == {"ParentalKey", "ParentalManyToManyField"}

RelationKinds == {"ForeignKey", "OneToOneField", "ManyToManyField",
                  "ParentalKey", "ParentalManyToManyField"}

\* Dotted names, labels and field names.
Paths == Seq(STRING)

\* A new index has no such name yet.
NoLabel == <<>>

\* Every element of a sequence of sequences, in order.
Concat(seqs) == FoldLeft(LAMBDA all, s : all \o s, <<>>, seqs)

Get(f, key, default) == IF key \in DOMAIN f THEN f[key] ELSE default

\* f itself; TLC computes its values once instead of at every application.
Once(f) == f @@ <<>>

\* f, and g where f has nothing.
Over(f, g) == [k \in DOMAIN f \cup DOMAIN g |-> IF k \in DOMAIN f THEN f[k] ELSE g[k]]

\* Body of a value that is computed once: a LET stands for its text.
With(value, Body(_)) == Body(value)

-----------------------------------------------------------------------------
(* Imports and names.                                                      *)

\* A relative import is resolved against the package of the importing file;
\* one that leaves the top package is dropped.
ResolveImportedModule(module, init, imported, level) ==
  LET package == IF init THEN module ELSE Front(module)
      up      == IF level = 0 THEN 0 ELSE level - 1
  IN IF level = 0 THEN imported
     ELSE IF up > Len(package) THEN <<>>
     ELSE SubSeq(package, 1, Len(package) - up) \o imported

ImportBindings(module, init, body) ==
  LET Binding(s) ==
        IF s.op = "import"
        THEN << [module |-> s.module, symbol |-> "", alias |-> s.alias,
                 star |-> FALSE] >>
        ELSE IF s.op = "from" /\ ResolveImportedModule(module, init, s.module, s.level) # <<>>
        THEN << [module |-> ResolveImportedModule(module, init, s.module, s.level),
                 symbol |-> IF s.symbol = "*" THEN "" ELSE s.symbol,
                 alias  |-> s.alias,
                 star   |-> s.symbol = "*"] >>
        ELSE <<>>
  IN Concat([i \in DOMAIN body |-> Binding(body[i])])

DefinedSymbols(body) ==
  {body[i].name : i \in {j \in DOMAIN body : body[j].op \in {"class", "def", "alias", "const"}}}
    \cup {"__all__" : i \in {j \in DOMAIN body : body[j].op = "all"}}

IsDjangoModelModule(module) == \E root \in DjangoRoots : IsPrefix(root, module)

IsPotentialField(name) == name \in FieldNames \cup ExternalFieldNames

\* A container of field classes: a Django module, or a name bound to one.
IsDjangoNamespace(container, imports) ==
  \/ IsDjangoModelModule(container)
  \/ \E i \in DOMAIN imports :
       LET b == imports[i]
       IN /\ container # <<>>
          /\ b.alias = container[1]
          /\ \/ b.symbol = "" /\ IsDjangoModelModule(b.module)
             \/ b.symbol = "models" /\ b.module \in ModelNamespaces

IsDirectFieldImport(name, imports) ==
  \E i \in DOMAIN imports :
    LET b == imports[i]
    IN /\ b.alias = name
       /\ b.symbol # ""
       /\ \/ IsPotentialField(name) /\ IsDjangoModelModule(b.module)
          \/ name \in ExternalFieldNames /\ b.symbol = name

\* The kind of field a name constructs, as far as this file alone can tell.
FieldKind(ref, mod) ==
  LET name      == Last(ref)
      container == Front(ref)
  IN IF ref = <<>> THEN ""
     ELSE IF Len(ref) = 1
     THEN IF name \in DOMAIN mod.aliases THEN mod.aliases[name]
          ELSE IF name \in mod.fieldClasses \/ IsDirectFieldImport(name, mod.imports)
          THEN name ELSE ""
     ELSE IF IsDjangoNamespace(container, mod.imports) /\ IsPotentialField(name) THEN name
     ELSE IF name \in mod.fieldClasses /\ container \in {<<"self">>, mod.module} THEN name
     ELSE ""

\* name = models.CharField gives the file an alias of that field.
FieldAliases(body, mod) ==
  LET refs  == {i \in DOMAIN body : body[i].op = "alias"}
      final == {i \in refs : /\ FieldKind(body[i].value, mod) # ""
                             /\ \A j \in refs : body[j].name = body[i].name => j <= i}
  IN [n \in {body[i].name : i \in final} |->
        FieldKind((CHOOSE s \in {body[i] : i \in final} : s.name = n).value, mod)]

\* The classes of the file that derive from a field, directly or not.
FieldClasses(classes, mod) ==
  LET Derived(known) ==
        {c.name : c \in {d \in ToSet(classes) :
           \E i \in DOMAIN d.bases : FieldKind(d.bases[i], [mod EXCEPT !.fieldClasses = known]) # ""}}
      closed[known \in SUBSET STRING] ==
        With(Derived(known), LAMBDA found :
          IF found \subseteq known THEN known ELSE closed[known \cup found])
  IN closed[mod.fieldClasses]

\* The kind the declaration gets; a name of the file that looks like a field
\* but is an ordinary class of it is no field.
FieldKindName(ref, mod, known) ==
  With(FieldKind(ref, [mod EXCEPT !.module = <<>>]), LAMBDA resolved :
    IF ref = <<>> THEN ""
    ELSE IF resolved # "" THEN resolved
    ELSE IF Len(ref) = 1 /\ ref[1] \in known THEN ""
    ELSE IF IsPotentialField(Last(ref)) THEN Last(ref)
    ELSE "")

-----------------------------------------------------------------------------
(* What a constructor argument means where it stands.                      *)

\* The last statement before position i that binds the name, 0 if none does.
BoundAt(body, i, name) ==
  LET binders == {j \in 1..(i - 1) :
        \/ body[j].op \in {"class", "def", "alias", "const"} /\ body[j].name = name
        \/ body[j].op \in {"import", "from"} /\ body[j].alias = name /\ body[j].alias # "*"}
  IN IF binders = {} THEN 0 ELSE CHOOSE j \in binders : \A k \in binders : k <= j

\* An argument is a literal, a reference to another module, or unknown: a
\* later assignment never turns an unresolved name into a supported value.
Literal(v)   == [is |-> "literal", value |-> v, ref |-> <<>>]
Reference(r) == [is |-> "import", value |-> "", ref |-> r]
Unknown      == [is |-> "unknown", value |-> "", ref |-> <<>>]

\* The module of a "from" import as the declaration context records it.
AliasedModule(module, init, s) ==
  LET package == IF init THEN module ELSE Front(module)
  IN IF s.level = 0 THEN s.module
     ELSE IF s.level > Len(package) THEN <<>>
     ELSE SubSeq(package, 1, Len(package) - s.level + 1) \o s.module

Capture(module, init, body, at, name) ==
  LET captured[i \in Nat, ref \in Paths] ==
        With(BoundAt(body, i, ref[1]), LAMBDA j :
          LET s == body[j]
          IN IF ref = <<>> \/ j = 0 THEN Unknown
             ELSE CASE s.op = "const"  -> IF Len(ref) = 1 THEN Literal(s.value) ELSE Unknown
                    [] s.op = "alias"  -> captured[j, s.value \o Tail(ref)]
                    [] s.op = "import" -> Reference(
                         (IF s.alias = s.module[1] THEN <<s.alias>> ELSE s.module) \o Tail(ref))
                    [] s.op = "from"   ->
                         IF AliasedModule(module, init, s) = <<>> THEN Unknown
                         ELSE Reference(Append(AliasedModule(module, init, s), s.symbol) \o Tail(ref))
                    [] OTHER           -> Unknown)
  IN captured[at, name]

\* A member of the class body that stands earlier hides the module's name.
DeclaredArgument(module, init, body, i, class, k) ==
  LET arg == class.fields[k].arg
  IN IF arg = <<>> THEN Unknown
     ELSE IF \E j \in 1..(k - 1) : class.fields[j].name = <<arg[1]>> THEN Unknown
     ELSE Capture(module, init, body, i, arg)

-----------------------------------------------------------------------------
(* Model candidates and their declared fields.                             *)

IsBuiltinModelBase(ref) == Last(ref) = "Model"

IsModelBase(ref) == IsBuiltinModelBase(ref) \/ Last(ref) \in ModelBaseNames

AppLabel(class, module) == IF class.app # "" THEN class.app ELSE module[1]

Candidate(mod, class, line, app, abstract, derived) ==
  [label |-> <<app, class.name>>, app |-> app, name |-> class.name,
   module |-> mod.module, init |-> mod.init, line |-> line, abstract |-> abstract,
   bases |-> class.bases, derived |-> derived]

CandidateRecords ==
  [label : Paths, app : STRING, name : STRING, module : Paths, init : BOOLEAN, line : Nat,
   abstract : BOOLEAN, bases : Seq(Paths), derived : BOOLEAN]

\* The declarations of a class that construct a field.
PendingFields(mod, body, line, class, app, known) ==
  LET Pending(k) ==
        LET d    == class.fields[k]
        IN With(FieldKindName(d.call, mod, known), LAMBDA kind :
           With(DeclaredArgument(mod.module, mod.init, body, line, class, k), LAMBDA arg :
             [label |-> <<app, class.name>>, module |-> mod.module, init |-> mod.init,
              app |-> app, name |-> d.name, line |-> <<line, k>>, call |-> d.call,
              kind |-> kind, relation |-> kind \in RelationKinds,
              to |-> IF kind \in RelationKinds THEN d.to ELSE [kind |-> "none", value |-> <<>>],
              rname |-> d.rname, rquery |-> d.rquery,
              ctor |-> <<d.opt, IF arg.is = "literal" THEN <<arg.value>> ELSE d.arg>>,
              imports |-> IF arg.is = "import" /\ arg.ref[1] # "django" THEN {arg.ref} ELSE {},
              pk |-> d.pk]))
  IN With(SelectSeq([k \in DOMAIN class.fields |-> k],
            LAMBDA k : FieldKindName(class.fields[k].call, mod, known) # ""), LAMBDA kept :
       [i \in DOMAIN kept |-> Pending(kept[i])])

\* The subclasses, in the same file, of what is already a model: repeated
\* passes over the classes until one registers nothing.
Promoted(body, classes, seeds) ==
  LET Names(s) == {body[s[i]].name : i \in DOMAIN s}
      Visit(reg, i) ==
        IF /\ body[i].name \notin Names(reg)
           /\ \E k \in DOMAIN body[i].bases : Last(body[i].bases[k]) \in Names(reg)
        THEN Append(reg, i) ELSE reg
      passes[registered \in Seq(DOMAIN body)] ==
        With(FoldLeft(Visit, registered, classes), LAMBDA next :
          IF next = registered THEN registered ELSE passes[next])
  IN passes[seeds]

ConstructorImports(pending) ==
  UNION {pending[i].imports : i \in DOMAIN pending}

\* The index of one file whose text parses.
BuildModuleIndex(file, body) ==
  LET classes == SelectSeq([i \in DOMAIN body |-> i], LAMBDA i : body[i].op = "class")
      imports == ImportBindings(file.module, file.init, body)
      alls    == SelectSeq(body, LAMBDA s : s.op = "all")
      derived == SelectSeq([k \in DOMAIN classes |-> body[classes[k]]],
                           LAMBDA c : c.bases # <<>>)
      seeds   == SelectSeq(classes, LAMBDA i :
                   \E k \in DOMAIN body[i].bases : IsModelBase(body[i].bases[k]))
      known   == {body[i].name : i \in ToSet(classes)}
      bare    == [module |-> <<>>, init |-> file.init, imports |-> imports,
                  aliases |-> <<>>, fieldClasses |-> {}]
      App(i)  == AppLabel(body[i], file.module)
      Model(mod, i) == Candidate(mod, body[i], i, App(i), body[i].abstract, FALSE)
      Fields(mod, i) == PendingFields(mod, body, i, body[i], App(i), known)
  IN With([bare EXCEPT !.aliases = FieldAliases(body, bare)], LAMBDA aliased :
     With([aliased EXCEPT !.fieldClasses = FieldClasses(derived, aliased),
                          !.module = file.module], LAMBDA mod :
     With(Promoted(body, classes, seeds), LAMBDA models :
     With(Concat([k \in DOMAIN models |-> Fields(mod, models[k])]), LAMBDA pending :
       [module |-> file.module, init |-> file.init,
        symbols |-> DefinedSymbols(body), imports |-> imports,
        all |-> IF alls = <<>> THEN <<FALSE, {}>> ELSE <<TRUE, ToSet(Last(alls).names)>>,
        candidates |-> [k \in DOMAIN models |-> Model(mod, models[k])],
        pending |-> pending,
        bases |-> [k \in DOMAIN derived |-> [name |-> derived[k].name, bases |-> derived[k].bases]],
        fieldClasses |-> mod.fieldClasses, aliases |-> mod.aliases,
        cimports |-> ConstructorImports(pending)]))))

=============================================================================
