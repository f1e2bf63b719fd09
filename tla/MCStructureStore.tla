-------------------------- MODULE MCStructureStore --------------------------
(* Small repositories for StructureStore: one or two of every language.    *)
EXTENDS StructureStore

E(kind, name, first, last, kids) ==
  [kind |-> kind, name |-> name, obj |-> <<>>, first |-> first, last |-> last,
   kids |-> kids, ann |-> {}]
Call(object, name, line, kids) == [E("call", name, line, line, kids) EXCEPT !.obj = object]
Noted(annotations, element) == [element EXCEPT !.ann = annotations]

Blocks(lang, stem, elems, blocks) ==
  [lang |-> lang, stem |-> stem, state |-> "readable", elems |-> elems, blocks |-> blocks]
File(lang, stem, elems, top) == Blocks(lang, stem, elems, <<[base |-> 0, top |-> top]>>)

Path(dir, base, ext) == [dir |-> dir, base |-> base, ext |-> ext]

(* Python: an import of each form, a function in a function, a recursion   *)
(* through another file, a dynamic call.                                   *)
PyMain == Path(<<"app">>, "main", "py")
PyUtil == Path(<<"app">>, "util", "py")
PyRoot == Path(<<>>, "util", "py")

Main(callee) ==
  File("python", "main",
    <<E("import", "app.util", 1, 1, <<>>), E("from", "util", 2, 2, <<>>),
      E("function", "run", 3, 7, <<4>>), E("body", "", 4, 7, <<5, 6>>),
      Call(<<>>, callee, 4, <<7>>),
      E("function", "inner", 5, 7, <<8>>), Call(<<>>, "helper", 4, <<>>), E("body", "", 6, 7, <<9, 10>>),
      Call(<<>>, "getattr", 6, <<>>), Call(<<"log">>, "save", 7, <<>>)>>, <<1, 2, 3>>)
Util(name) ==
  File("python", "util",
    <<E("function", name, 1, 3, <<2>>), E("body", "", 2, 3, <<3, 4>>),
      Call(<<>>, "run", 2, <<>>), Call(<<>>, name, 3, <<>>)>>, <<1>>)

(* A class with a method, with a decorated one, and with neither.          *)
Class(wrapped, bases) ==
  File("python", "util",
    <<[E("class", "Store", 1, 4, <<2>>) EXCEPT !.obj = bases], E("body", "", 2, 4, <<IF wrapped THEN 3 ELSE 4>>),
      E("other", "", 2, 4, <<4>>), E("function", "save", 3, 4, <<5>>),
      E("body", "", 4, 4, <<6>>), Call(<<>>, "helper", 4, <<>>)>>, <<1>>)

(* Java: a service that calls a repository it was given, a library, and    *)
(* itself; two classes with a method of one name.                          *)
JvApp  == Path(<<>>, "App", "java")
JvRepo == Path(<<>>, "Repo", "java")
JvLog  == Path(<<>>, "Log", "java")

JavaApp(annotation) ==
  File("java", "shop",
    <<E("import", "lib.Mapper", 1, 1, <<>>),
      Noted({"@Service"}, E("class", "App", 2, 9, <<3>>)), E("body", "", 3, 9, <<4, 5>>),
      E("constructor", "App", 3, 4, <<>>),
      Noted({annotation}, E("method", "run", 5, 9, <<6>>)), E("body", "", 6, 9, <<7, 8, 9, 10, 11>>),
      Call(<<"repo">>, "save", 6, <<>>), Call(<<"this", "mapper">>, "map", 7, <<>>),
      Call(<<"mapper">>, "map", 8, <<>>), Call(<<>>, "stop", 9, <<>>),
      Call(<<"lombok">>, "val", 9, <<>>)>>, <<1, 2>>)
JavaClass(name) ==
  File("java", "shop",
    <<E("class", name, 1, 3, <<2>>), E("body", "", 2, 3, <<3>>), E("method", "save", 2, 3, <<>>)>>, <<1>>)

(* TypeScript and JavaScript: a class, an arrow function, an object with   *)
(* methods, a component; a Vue file of two scripts with the same lines.    *)
TsApp  == Path(<<"src">>, "app", "ts")
TsUtil == Path(<<"src", "util">>, "index", "ts")
JsApp  == Path(<<"src">>, "old", "js")
VueApp == Path(<<"src">>, "App", "vue")
GoMain == Path(<<>>, "main", "go")
CssApp == Path(<<>>, "app", "css")

ScriptElements ==
  <<E("import", "./util", 1, 1, <<>>), E("import", "src/util", 2, 2, <<>>),
    E("class", "Shop", 3, 6, <<4>>), E("body", "", 3, 6, <<5>>),
    E("method", "open", 4, 6, <<6>>), E("body", "", 4, 6, <<7>>), Call(<<>>, "useCart", 5, <<>>),
    E("lambda", "useCart", 7, 8, <<9>>), Call(<<"api">>, "get", 8, <<>>),
    E("object", "", 9, 11, <<11, 12>>), E("method", "created", 9, 9, <<>>),
    E("pair", "load", 10, 11, <<13>>), E("lambda", "", 10, 11, <<14>>),
    Call(<<>>, "useCart", 11, <<>>), E("import", "src/util/index.ts", 2, 2, <<>>)>>
Script(lang) == File(lang, "app", ScriptElements, <<1, 2, 15, 3, 8, 10>>)
Vue == Blocks("vue", "app", ScriptElements,
              <<[base |-> 0, top |-> <<1, 3, 10>>], [base |-> 6, top |-> <<8>>]>>)
TsLibrary ==
  File("typescript", "index",
    <<E("interface", "Api", 1, 2, <<2>>), E("body", "", 1, 2, <<3>>), E("signature", "get", 2, 2, <<>>),
      E("function", "useCart", 3, 4, <<5>>), E("jsx", "Cart", 4, 4, <<>>),
      E("alias", "Id", 5, 5, <<>>)>>, <<1, 4, 6>>)

GoServer == File("go", "main",
        <<E("struct", "Server", 1, 2, <<>>),
          [E("method", "serve", 3, 5, <<3, 4>>) EXCEPT !.obj = <<"Server">>],
          Call(<<"fmt">>, "Println", 4, <<>>), Call(<<>>, "main", 5, <<>>),
          E("function", "main", 6, 7, <<6>>), Call(<<>>, "serve", 7, <<>>)>>, <<1, 2, 5>>)
Css == File("css", "app", <<>>, <<>>)
TooLarge(src) == [src EXCEPT !.state = "too large"]

MCPathOrder == <<JvApp, JvLog, JvRepo, CssApp, PyMain, PyUtil, GoMain, VueApp, TsApp, JsApp, TsUtil, PyRoot>>

MCProjects ==
  { (PyMain :> Main("helper")) @@ (PyUtil :> Util("helper")) @@ (PyRoot :> Class(TRUE, <<>>)),
    (PyMain :> Main("fetch")) @@ (PyUtil :> Class(FALSE, <<>>)),
    (PyUtil :> Class(FALSE, <<"Enum">>)) @@ (CssApp :> Css),
    (JvApp :> JavaApp("@Override")) @@ (JvRepo :> JavaClass("Repo")) @@ (JvLog :> JavaClass("Log")),
    (TsApp :> Script("typescript")) @@ (TsUtil :> TsLibrary),
    (JsApp :> Script("javascript")) @@ (VueApp :> Vue) @@ (GoMain :> GoServer) }

MCVariants ==
  [p \in Range(MCPathOrder) |->
     CASE p = PyMain -> {Main("helper"), Main("fetch")}
       [] p = PyUtil -> {Util("helper"), Util("fetch"), Class(FALSE, <<>>)}
       [] p = JvApp  -> {JavaApp("@Override"), JavaApp("@Inject")}
       [] p = JvRepo -> {JavaClass("Repo"), JavaClass("Store")}
       [] p = TsUtil -> {TsLibrary, TooLarge(TsLibrary)}
       [] p = GoMain -> {GoServer, TooLarge(GoServer)}
       [] OTHER -> {}]

MCImportPath ==
  [n \in {"app.util"} |-> <<"app", "util">>] @@ ("unknown" :> <<"unknown">>)
  @@ ("lib.Mapper" :> <<"lib", "Mapper">>) @@ ("./util" :> <<".", "util">>) @@ ("src/util" :> <<"src", "util">>)
  @@ ("src/util/index.ts" :> <<"src", "util", "index.ts">>)
MCRoot    == <<"", "storage", "shop">>
MCCapital == ("repo" :> "Repo") @@ ("mapper" :> "Mapper") @@ ("log" :> "Log")
MCSeedRules == [java |-> {"lombok"}]
MCLower   == ("Mapper" :> "mapper") @@ ("Repo" :> "repo")
=============================================================================
