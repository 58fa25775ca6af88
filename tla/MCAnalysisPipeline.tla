-------------------------- MODULE MCAnalysisPipeline --------------------------
EXTENDS AnalysisPipeline

Models(n) == <<"models", n>>

From(m, lv, s) == [op |-> "from", module |-> m, level |-> lv, symbol |-> s, alias |-> s]
DjangoModels == From(<<"django", "db">>, 0, "models")

Declared(n, call, to, rname, arg, pk) ==
  [name |-> <<n>>, call |-> call, to |-> to, rname |-> rname, rquery |-> <<>>,
   opt |-> "", arg |-> arg, pk |-> pk]
NoTo == [kind |-> "none", value |-> <<>>]
To(s) == [kind |-> "symbol", value |-> <<s>>]
Char(n) == Declared(n, Models("CharField"), NoTo, <<>>, <<>>, FALSE)
CharMax(n) == Declared(n, Models("CharField"), NoTo, <<>>, <<"MAX">>, FALSE)
CharKey(n) == Declared(n, Models("CharField"), NoTo, <<>>, <<>>, TRUE)
FK(n, s, r) == Declared(n, Models("ForeignKey"), To(s), r, <<>>, FALSE)
Class(n, bases, abstract, fields, body) ==
  [op |-> "class", name |-> n, bases |-> bases, app |-> "", abstract |-> abstract,
   fields |-> fields, members |-> body, querysets |-> <<>>]
NoRet == [shape |-> "", ref |-> <<>>]
Def(n, ret) == [op |-> "def", name |-> <<n>>, kind |-> "method", ret |-> ret]
Managed1(n, f) == [op |-> "call", name |-> <<n>>, function |-> f, nested |-> <<>>, queryset |-> ""]

mcBase == [module |-> <<"shop", "base">>, init |-> FALSE]
mcModels == [module |-> <<"shop", "models">>, init |-> FALSE]
mcConsts == [module |-> <<"shop", "consts">>, init |-> FALSE]
mcManagers == [module |-> <<"shop", "managers">>, init |-> FALSE]
mcSourceFiles == <<mcBase, mcConsts, mcManagers, mcModels>>

Stamped(abstract, fields, body) ==
  Text(<<DjangoModels, Class("Stamped", <<Models("Model")>>, abstract, fields, body)>>)
Consts(v) == Text(<<[op |-> "const", name |-> "MAX", value |-> v]>>)
Managers(body) ==
  Text(<<DjangoModels,
         Class("BookManager", <<Models("Manager")>>, FALSE, <<>>, body)>>)
Shop(author, book) ==
  Text(<<DjangoModels, From(<<"base">>, 1, "Stamped"), From(<<"consts">>, 1, "MAX"),
         From(<<"managers">>, 1, "BookManager"),
         Class("Author", <<<<"Stamped">>>>, FALSE, author, <<>>)>> \o book)
Book(fields, body) == <<Class("Book", <<Models("Model")>>, FALSE, fields, body)>>

AnAuthor == Def("writer", [shape |-> "plain", ref |-> <<"Author">>])
Works == Def("works", [shape |-> "QuerySet", ref |-> <<"Book">>])
BookObjects == Managed1("objects", <<"BookManager">>)

FirstShop == Shop(<<>>, Book(<<CharMax("title"), FK("author", "Author", <<>>)>>, <<BookObjects, AnAuthor>>))

mcTexts ==
  mcBase :> {Stamped(TRUE, <<Char("created")>>, <<>>),
             Stamped(FALSE, <<Char("created")>>, <<>>), Absent}
  @@ mcConsts :> {Consts(v) : v \in {1, 2}}
  @@ mcManagers :> {Managers(<<>>), Managers(<<Works>>)}
  @@ mcModels :> {FirstShop,
       Shop(<<CharKey("code")>>, Book(<<CharMax("title"), FK("writer", "Author", <<"books">>)>>, <<AnAuthor>>)),
       Shop(<<>>, <<>>),
       Broken}

mcInitialDisk ==
  mcBase :> Stamped(TRUE, <<Char("created")>>, <<>>) @@ mcConsts :> Consts(1)
  @@ mcManagers :> Managers(<<>>) @@ mcModels :> FirstShop

mcLower == "Author" :> "author" @@ "Book" :> "book" @@ "Stamped" :> "stamped"
mcRuntimeApp == [m \in {mcBase.module, mcModels.module, mcManagers.module, mcConsts.module} |-> "store"]

mcInstanceBuiltins == (<<"save">> :> <<"method", "unknown">>)
mcManagerBuiltins == (<<"get">> :> <<"method", "instance">>)
mcQuerysetBuiltins == (<<"get">> :> <<"method", "instance">>) @@ (<<"ordered">> :> <<"property", "scalar">>)
=============================================================================
