---------------------------- MODULE ModuleGraph ----------------------------
(***************************************************************************)
(* ModuleDependencyBuilder: the imports of a repository resolved into      *)
(* dependencies between its files.                                         *)
(*                                                                         *)
(* A path is the words of its directory, its base name and its extension.  *)
(* The files table holds paths relative to the repository, in their order; *)
(* a node holds the absolute path of its file, below Root.  An import name *)
(* stands for the words of ImportPath[name], and begins with "." or ".."   *)
(* when it is relative.                                                    *)
(***************************************************************************)
EXTENDS Integers, FiniteSets, Sequences, SequencesExt

CONSTANTS ImportPath,   \* import name -> the words of the module it names
          Root          \* the words of the directory of the repository

ASSUME RootAssumption == Root # <<>>

NoFile == [dir |-> <<>>, base |-> "", ext |-> ""]

(* What stands at some places of a sequence, in its order.                 *)
Chosen(seq, places) ==
  [n \in 1..Cardinality(places) |->
     seq[CHOOSE k \in places : Cardinality({j \in places : j < k}) = n - 1]]

Absolute(path) == [path EXCEPT !.dir = Root \o @]

IsRelative(name) == ImportPath[name][1] \in {".", ".."}

(* _resolve_module_path: a relative import is joined to the directory of   *)
(* the importer, which is absolute; ".." is not taken out.                 *)
ModulePath(name, importer) ==
  LET words == SelectSeq(ImportPath[name], LAMBDA w : w # ".")
  IN IF IsRelative(name) THEN Absolute(importer).dir \o words ELSE words

(* _find_imported_file: the file whose path is the module as it is written *)
(* with its extension, or else the entry files of the module and its own   *)
(* file in a fixed order, or else the first file with the module's name.   *)
WordsOf(p) == Append(p.dir, IF p.ext = "" THEN p.base ELSE p.base \o "." \o p.ext)

Entries(module) ==
  LET In(base, ext) == [dir |-> module, base |-> base, ext |-> ext]
      As(ext)       == [dir |-> Front(module), base |-> Last(module), ext |-> ext]
  IN <<In("__init__", "py"), In("__init__", "ts"), In("index", "ts"), In("index", "js"),
       In("index", "py"), As("py"), As("ts"), As("js")>>

FirstOf(seq, Test(_)) ==
  LET hits == {k \in DOMAIN seq : Test(seq[k])}
  IN IF hits = {} THEN NoFile ELSE seq[CHOOSE k \in hits : \A j \in hits : k <= j]

FindImportedFile(module, paths) ==
  LET exact == FirstOf(paths, LAMBDA p : WordsOf(p) = module)
      entry == FirstOf(Entries(module), LAMBDA p : p \in Range(paths))
  IN IF exact # NoFile THEN exact
     ELSE IF entry # NoFile THEN entry
     ELSE FirstOf(paths, LAMBDA p : p.dir = Front(module) /\ p.base = Last(module))

ImportType(name, imported) ==
  IF imported = NoFile THEN "external" ELSE IF IsRelative(name) THEN "relative" ELSE "absolute"

(* _get_file_id_by_path: the first file whose path ends the absolute path. *)
ImporterOf(path, paths) ==
  FirstOf(paths, LAMBDA p : p.base = path.base /\ p.ext = path.ext
                            /\ IsSuffix(p.dir, Absolute(path).dir))

(* Mutant: imports of no file of the repository are left out.              *)
MatchInternal(imports, paths) ==
  LET Dependency(row) ==
        LET imported == FindImportedFile(ModulePath(row.name, row.file), paths)
        IN [importer |-> ImporterOf(row.file, paths), imported |-> imported,
            name |-> row.name, type |-> ImportType(row.name, imported)]
      all == [k \in DOMAIN imports |-> Dependency(imports[k])]
  IN Chosen(all, {k \in DOMAIN all : all[k].imported # NoFile})

(* _match_dependencies: a dependency for every import whose file is found. *)
MatchDependencies(imports, paths) ==
  LET Dependency(row) ==
        LET imported == FindImportedFile(ModulePath(row.name, row.file), paths)
        IN [importer |-> ImporterOf(row.file, paths), imported |-> imported,
            name |-> row.name, type |-> ImportType(row.name, imported)]
      all == [k \in DOMAIN imports |-> Dependency(imports[k])]
  IN Chosen(all, {k \in DOMAIN all : all[k].importer # NoFile})

BuildModuleGraph(imports, paths) == MatchDependencies(imports, paths)

(* build_data_for_files compares the absolute path of a node with the      *)
(* relative paths of the files that changed.                               *)
BuildModuleGraphFor(imports, paths, targets) ==
  MatchDependencies(Chosen(imports, {k \in DOMAIN imports : Absolute(imports[k].file) \in targets}),
                    Chosen(paths, {k \in DOMAIN paths : paths[k] \in targets}))
=============================================================================
