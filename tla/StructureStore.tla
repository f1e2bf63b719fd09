--------------------------- MODULE StructureStore ---------------------------
(***************************************************************************)
(* The structure of a repository in the database: the nodes of its files,  *)
(* the call edges between them and the dependencies between the files, as  *)
(* full and incremental runs of the orchestrator write them while the      *)
(* files change under it.                                                  *)
(*                                                                         *)
(* A run scans the files (and takes their hashes), parses the ones it has  *)
(* to one by one (reading them again), and builds the two graphs.  The     *)
(* threshold of incremental runs is taken to be high; a run that falls     *)
(* back is a full one.                                                     *)
(***************************************************************************)
EXTENDS FrameworkTags, CallGraph

CONSTANTS PathOrder,   \* the paths a repository may have, in order
          Projects,    \* the repositories: functions from paths to sources
          Variants,    \* path -> the sources an edit may leave there
          MaxRuns,     \* bound: runs of the analysis
          MaxEdits     \* bound: edits of files

(* What a file of the repositories may hold.                               *)
Sources == (UNION {Range(p) : p \in Projects}) \cup (UNION {Variants[f] : f \in Range(PathOrder)})

(* The paths of a repository are distinct relative paths with a base name. *)
ASSUME PathsAssumption ==
  /\ PathOrder \in Seq([dir : Seq(STRING), base : STRING \ {""}, ext : STRING])
  /\ IsInjective(PathOrder)
  /\ Root \in Seq(STRING)
  /\ \A p \in Projects : DOMAIN p \subseteq Range(PathOrder)

(* What is parsed are syntax trees. *)
ASSUME SourcesAssumption == \A src \in Sources : IsTree(src)

VARIABLES source,    \* path -> what the file holds now
          hashed,    \* path -> what it held when the last run scanned it
          read,      \* path -> what it held when a run last parsed it
          rows,      \* table ast_nodes, in insertion order
          edges,     \* table call_edges
          deps,      \* table module_dependencies
          progress,  \* table file_analysis_progress, stage ast
          phase,     \* "idle" or "parse"
          mode,      \* the kind of the current or last run
          todo,      \* files the run has still to parse
          targets,   \* files the run parses
          raced,     \* files edited between the scan of the run that parses them and the parse
          runs, edits

files  == <<source, hashed, read>>
tables == <<rows, edges, deps>>
run    == <<phase, mode, todo, targets, raced>>
storeVars == <<files, tables, progress, run, runs, edits>>

Files == DOMAIN source
PathsOf(files_) == Chosen(PathOrder, {k \in DOMAIN PathOrder : PathOrder[k] \in files_})
Paths == PathsOf(Files)
NeverRead == [state |-> "never read"]

RowsOf(f) == {k \in DOMAIN rows : rows[k].file = f}

----------------------------------------------------------------------------
(* StructureDataPipeline.ingest_ast_nodes                                  *)

StoredTypes == {"function", "method", "class", "constructor", "call", "import",
                "interface", "protocol", "variable", "enum", "type", "struct"}
EdgeTypes   == {"static", "dynamic", "unknown"}

KeyOf(n) == <<n.type, n.name, n.star, n.first>>
SameKey(a, b) == KeyOf(a) = KeyOf(b)

(* The key a uuid is given for does without the type of the node.          *)
SameUuid(a, b) == a.name = b.name /\ a.star = b.star /\ a.first = b.first /\ a.last = b.last

(* Mutant: no deduplication.                                               *)
NotDeduplicated(nodes) == nodes

(* _deduplicate_nodes: the last node of a key, where the first one was.    *)
Deduplicated(nodes) ==
  LET Same(k)  == {j \in DOMAIN nodes : SameKey(nodes[j], nodes[k])}
      First(k) == \A j \in Same(k) : k <= j
      LastOf(k) == CHOOSE i \in Same(k) : \A j \in Same(k) : j <= i
  IN Chosen([k \in DOMAIN nodes |-> nodes[LastOf(k)]], {k \in DOMAIN nodes : First(k)})

Admitted(f, src) ==
  LET parsed == ParseFile(src)
      nodes == Chosen(parsed, {k \in DOMAIN parsed : parsed[k].type \in StoredTypes})
      Row(n) == [file |-> f, type |-> n.type, name |-> n.name, star |-> n.star,
                 first |-> n.first, last |-> n.last, qn |-> n.qn, ann |-> n.ann,
                 tags |-> TagsOf(src.lang, n), parent |-> n.parent]
      unique == Deduplicated(nodes)
  IN [k \in DOMAIN unique |-> Row(unique[k])]

(* Mutant: the rows that are a parent go last.                             *)
LinkedChildrenFirst(admitted, hasUuids) ==
  LET ParentId(r) ==
        LET found == {k \in DOMAIN admitted : SameUuid(admitted[k], r.parent)}
        IN IF hasUuids /\ r.parent # Nobody /\ found # {}
           THEN IdOf(admitted[CHOOSE k \in found : TRUE]) ELSE NoNode
      linked == [k \in DOMAIN admitted |-> [admitted[k] EXCEPT !.parent = ParentId(admitted[k])]]
      parents == {k \in DOMAIN linked : \E j \in DOMAIN linked : linked[j].parent = IdOf(linked[k])}
  IN Chosen(linked, DOMAIN linked \ parents) \o Chosen(linked, parents)

(* Mutant: of the rows that are a parent, the later ones go first.         *)
LinkedInnermostFirst(admitted, hasUuids) ==
  LET ParentId(r) ==
        LET found == {k \in DOMAIN admitted : SameUuid(admitted[k], r.parent)}
        IN IF hasUuids /\ r.parent # Nobody /\ found # {}
           THEN IdOf(admitted[CHOOSE k \in found : TRUE]) ELSE NoNode
      linked == [k \in DOMAIN admitted |-> [admitted[k] EXCEPT !.parent = ParentId(admitted[k])]]
      parents == {k \in DOMAIN linked : \E j \in DOMAIN linked : linked[j].parent = IdOf(linked[k])}
  IN Reverse(Chosen(linked, parents)) \o Chosen(linked, DOMAIN linked \ parents)

(* _ingest_items: a parent that is not among the items is cleared, and     *)
(* rows that are a parent go first.  An incremental parse gives the rows   *)
(* no uuid of its own, so that no parent is among them.                    *)
Linked(admitted, hasUuids) ==
  LET ParentId(r) ==
        LET found == {k \in DOMAIN admitted : SameUuid(admitted[k], r.parent)}
        IN IF hasUuids /\ r.parent # Nobody /\ found # {}
           THEN IdOf(admitted[CHOOSE k \in found : TRUE]) ELSE NoNode
      linked == [k \in DOMAIN admitted |-> [admitted[k] EXCEPT !.parent = ParentId(admitted[k])]]
      parents == {k \in DOMAIN linked : \E j \in DOMAIN linked : linked[j].parent = IdOf(linked[k])}
  IN Chosen(linked, parents) \o Chosen(linked, DOMAIN linked \ parents)

(* Two rows with one uuid break the primary key. *)
Clashes(admitted) ==
  \E j, k \in DOMAIN admitted : j # k /\ SameUuid(admitted[j], admitted[k])

(* ingest_call_edges: a type the validator does not know is left out.      *)
AdmittedEdges(found) == {e \in found : e.type \in EdgeTypes}

----------------------------------------------------------------------------
StoreInit ==
  /\ source \in Projects
  /\ hashed = source
  /\ read = [f \in DOMAIN source |-> NeverRead]
  /\ rows = <<>> /\ edges = {} /\ deps = <<>>
  /\ progress = [f \in DOMAIN source |-> "none"]
  /\ phase = "idle" /\ mode = "none" /\ todo = <<>> /\ targets = {} /\ raced = {}
  /\ runs = 0 /\ edits = 0

Edit(f, src) ==
  /\ edits < MaxEdits
  /\ src # source[f]
  /\ source' = [source EXCEPT ![f] = src]
  /\ edits' = edits + 1
  /\ raced' = IF f \in Range(todo) THEN raced \cup {f} ELSE raced
  /\ UNCHANGED <<hashed, read, tables, progress, phase, mode, todo, targets, runs>>

(* Mutant: the call edges outlive the rows of files.                       *)
RescanKeepingEdges(kind, files_) ==
  /\ phase = "idle" /\ runs < MaxRuns
  /\ runs' = runs + 1
  /\ hashed' = source
  /\ rows' = <<>> /\ deps' = <<>> /\ edges' = edges
  /\ progress' = [f \in Files |-> "none"]
  /\ phase' = "parse" /\ mode' = kind
  /\ todo' = PathsOf(files_) /\ targets' = files_ /\ raced' = {}
  /\ UNCHANGED <<source, read, edits>>

(* A run begins.  The scan replaces every row of files, whatever the kind  *)
(* of the run, and nodes, edges and dependencies go with them by ON DELETE *)
(* CASCADE: the deletions that open parse_ast and parse_ast_incremental    *)
(* find nothing.  Progress is kept by version, and a new one has none.     *)
Rescan(kind, files_) ==
  /\ phase = "idle" /\ runs < MaxRuns
  /\ runs' = runs + 1
  /\ hashed' = source
  /\ rows' = <<>> /\ edges' = {} /\ deps' = <<>>
  /\ progress' = [f \in Files |-> "none"]
  /\ phase' = "parse" /\ mode' = kind
  /\ todo' = PathsOf(files_) /\ targets' = files_ /\ raced' = {}
  /\ UNCHANGED <<source, read, edits>>

StartFull == Rescan("full", Files)

(* What changed since the last scan, and what depends on it (the analyzer  *)
(* may find any files; see IncrementalDiff).                               *)
StartIncremental ==
  LET changed == {f \in Files : source[f] # hashed[f]}
  IN /\ mode # "none"
     /\ \E propagated \in SUBSET (Files \ changed) :
          /\ changed = {} => propagated = {}
          /\ Rescan("incremental", changed \cup propagated)

(* One file of parse_ast: a savepoint is rolled back when a row clashes.   *)
ParseFull ==
  LET f == Head(todo)
      src == source[f]
      admitted == Admitted(f, src)
  IN /\ phase = "parse" /\ mode = "full" /\ todo # <<>>
     /\ todo' = Tail(todo)
     /\ read' = [read EXCEPT ![f] = src]
     /\ \/ /\ ~HasParser(src.lang)
           /\ progress' = [progress EXCEPT ![f] = "skipped"]
           /\ rows' = rows
        \/ /\ HasParser(src.lang) /\ ~Clashes(admitted)
           /\ progress' = [progress EXCEPT ![f] = "completed"]
           /\ rows' = rows \o Linked(admitted, TRUE)
        \/ /\ HasParser(src.lang) /\ Clashes(admitted)
           /\ progress' = [progress EXCEPT ![f] = "failed"]
           /\ rows' = rows
     /\ UNCHANGED <<source, hashed, edges, deps, phase, mode, targets, raced, runs, edits>>

(* Mutant: a file of the same size is not read again.                      *)
ParseIncrementalCached ==
  LET f == Head(todo)
      same == read[f] # NeverRead /\ Len(read[f].elems) = Len(source[f].elems)
      src == IF same THEN read[f] ELSE source[f]
  IN /\ phase = "parse" /\ mode = "incremental" /\ todo # <<>>
     /\ todo' = Tail(todo)
     /\ read' = [read EXCEPT ![f] = src]
     /\ rows' = IF HasParser(src.lang) THEN rows \o Linked(Admitted(f, src), FALSE) ELSE rows
     /\ UNCHANGED <<source, hashed, edges, deps, progress, phase, mode, targets, raced, runs, edits>>

(* One file of parse_ast_incremental; it reports no progress.              *)
ParseIncremental ==
  LET f == Head(todo)
      src == source[f]
  IN /\ phase = "parse" /\ mode = "incremental" /\ todo # <<>>
     /\ todo' = Tail(todo)
     /\ read' = [read EXCEPT ![f] = src]
     /\ rows' = IF HasParser(src.lang) THEN rows \o Linked(Admitted(f, src), FALSE) ELSE rows
     /\ UNCHANGED <<source, hashed, edges, deps, progress, phase, mode, targets, raced, runs, edits>>

Imports == OfTypes(rows, {"import"}, Files)

BuildFull ==
  /\ phase = "parse" /\ mode = "full" /\ todo = <<>>
  /\ edges' = AdmittedEdges(BuildCallGraph(rows, Files))
  /\ deps' = BuildModuleGraph(Imports, Paths)
  /\ phase' = "idle"
  /\ UNCHANGED <<files, rows, progress, mode, todo, targets, raced, runs, edits>>

(* CallEdgeDAO and ModuleDependencyDAO delete_by_file_ids. *)
EdgesWithout(gone) == {e \in edges : e.caller.file \notin gone /\ e.callee.file \notin gone}
DepsWithout(gone)  ==
  Chosen(deps, {k \in DOMAIN deps : deps[k].importer \notin gone /\ deps[k].imported \notin gone})

(* build_structures_incremental: the edges and dependencies from and into  *)
(* the changed files go, those the changed files alone account for come.   *)
BuildIncremental ==
  /\ phase = "parse" /\ mode = "incremental" /\ todo = <<>>
  /\ IF targets = {} THEN UNCHANGED <<edges, deps>>
     ELSE /\ edges' = EdgesWithout(targets) \cup AdmittedEdges(BuildCallGraph(rows, targets))
          /\ deps' = DepsWithout(targets) \o BuildModuleGraphFor(Imports, Paths, targets)
  /\ phase' = "idle"
  /\ UNCHANGED <<files, rows, progress, mode, todo, targets, raced, runs, edits>>

Done ==
  /\ phase = "idle" /\ runs = MaxRuns /\ edits = MaxEdits
  /\ UNCHANGED storeVars

StoreNext ==
  \/ \E f \in Files : \E src \in Variants[f] : Edit(f, src)
  \/ StartFull \/ StartIncremental
  \/ ParseFull \/ ParseIncremental
  \/ BuildFull \/ BuildIncremental
  \/ Done

StoreSpec == StoreInit /\ [][StoreNext]_storeVars
----------------------------------------------------------------------------
(* Properties                                                              *)

Ids == {IdOf(r) : r \in Range(rows)}
Settled == phase = "idle" /\ mode = "full"

(* Types of the tables.                                                    *)
StoreTypeOK ==
  /\ DOMAIN hashed = Files /\ DOMAIN read = Files
  /\ \A k \in DOMAIN rows : rows[k].file \in Files /\ rows[k].type \in StoredTypes
  /\ \A e \in edges : e.type \in EdgeTypes
  /\ \A k \in DOMAIN deps : deps[k].importer \in Files /\ deps[k].imported \in Files \cup {NoFile}
  /\ progress \in [Files -> {"none", "skipped", "completed", "failed"}]
  /\ phase \in {"idle", "parse"} /\ mode \in {"none", "full", "incremental"}
  /\ Range(todo) \subseteq targets /\ targets \subseteq Files

(* The rows of a file that a run has parsed are those of one reading of    *)
(* it, whole: one for every line, type and name the parser yields and the  *)
(* table admits, however often the double walk met it; only a file whose   *)
(* rows clash in a full run leaves none (savepoint and deduplication of    *)
(* parse_ast and _ingest_items).                                           *)
RowsAreWhole ==
  \A f \in targets \ Range(todo) :
    LET keys == IF HasParser(read[f].lang) /\ progress[f] # "failed"
                THEN {KeyOf(n) : n \in {x \in Range(ParseFile(read[f])) : x.type \in StoredTypes}}
                ELSE {}
    IN /\ Cardinality(RowsOf(f)) = Cardinality(keys)
       /\ {KeyOf(rows[k]) : k \in RowsOf(f)} = keys

(* The rows of a file come from the content the run has taken the hash of, *)
(* unless the file was edited between the scan and its parse: the parser   *)
(* reads a file again (parse_ast, parse_ast_incremental).                  *)
RowsAreCurrent ==
  \A f \in Files \ raced : RowsOf(f) # {} => read[f] = hashed[f]

(* A stored parent is a row of the same file and contains its child; a     *)
(* child that is nobody's parent comes after it (the foreign key, and the  *)
(* sort of _ingest_items).                                                 *)
ParentsContain ==
  \A k \in DOMAIN rows : rows[k].parent # NoNode =>
    \E j \in 1..Len(rows) :
      /\ IdOf(rows[j]) = rows[k].parent /\ rows[j].file = rows[k].file
      /\ rows[j].first <= rows[k].first /\ rows[k].last <= rows[j].last
      /\ j <= k \/ \E i \in DOMAIN rows : rows[i].parent = IdOf(rows[k])

(* The sort asks only whether a row is a parent, and yet of a parent and   *)
(* its own parent, on an earlier line, the outer one comes first, however  *)
(* deep they nest and whatever the deduplication kept, so that no batch    *)
(* refers to a later one (_extract_nodes, _deduplicate_nodes, the sort).   *)
(* Of code on one line it is not true: a call that is met outside the      *)
(* function before it is met inside keeps its first place.                 *)
ParentsGoFirst ==
  \A j, k \in DOMAIN rows :
    rows[k].parent = IdOf(rows[j]) /\ rows[j].first < rows[k].first => j < k

(* An edge leaves a row of the table: a function around the line of the    *)
(* call, or the call itself outside every function; and it enters a        *)
(* function, or nothing (match_call_edges, and the deletions in between).  *)
EdgesAreGrounded ==
  \A e \in edges :
    /\ \E r \in Range(rows) :
         /\ IdOf(r) = e.caller
         /\ IF r.type \in Callable THEN r.first <= e.line /\ e.line <= r.last
            ELSE r.type = "call" /\ r.first = e.line
    /\ e.callee # NoNode => e.callee \in Ids /\ e.callee.type \in Callable

(* Between runs of either kind a stored plain call of a name that stored   *)
(* functions have leads to all of them, in whatever file, and to nothing   *)
(* else (MethodNameMatchStrategy, build_data_for_files).                   *)
CallsReachNames ==
  phase = "idle" =>
    \A c \in Range(rows) : c.type = "call" /\ ~c.star /\ c.name \notin DynamicNames =>
      LET named == {IdOf(f) : f \in {r \in Range(rows) : r.type \in Callable /\ r.name = c.name}}
          found == {e.callee : e \in {x \in edges : x.line = c.first /\ x.name = c.name /\ ~x.star
                                                    /\ x.caller.file = c.file}}
      IN named # {} => found = named

(* With a depth no smaller than the number of rows, the call chain of a    *)
(* function is what can be reached from it, cycles or not (_dfs_chain).    *)
ChainsReachAll ==
  phase = "idle" =>
    \A r \in {x \in Range(rows) : x.type \in Callable} :
      LET Chain == Range(CallChain(edges, IdOf(r), Len(rows)))
          Reached == {c.node : c \in Chain}
          Callees(S) == {e.callee : e \in {x \in edges : x.caller \in S /\ x.callee # NoNode}}
      IN /\ Reached = Callees(Reached \cup {IdOf(r)})
         /\ \A c \in Chain : \/ c.depth = 1 /\ c.node \in Callees({IdOf(r)})
                             \/ \E d \in Chain : d.depth + 1 = c.depth /\ c.node \in Callees({d.node})

(* After a full run there is one dependency for every import row           *)
(* (_match_dependencies).                                                  *)
DepsMatchImports ==
  Settled =>
    \A i \in Range(Imports) :
      Cardinality({k \in DOMAIN deps : deps[k].name = i.name})
        = Cardinality({k \in DOMAIN Imports : Imports[k].name = i.name})

(* "Only delete the nodes of changed files, keep those of unchanged ones": *)
(* an incremental run leaves the rows of the files it does not parse.      *)
UnchangedFilesKept ==
  [][mode' = "incremental" =>
       LET Of(rs) == Chosen(rs, {k \in DOMAIN rs : rs[k].file \notin targets'})
       IN Of(rows') = Of(rows)]_storeVars

(* "AST 解析": every readable file with a parser has its nodes stored.     *)
ReadableFilesStored ==
  \A f \in Files : progress[f] # "failed"
=============================================================================
