--------------------------- MODULE IncrementalDiff ---------------------------
(***************************************************************************)
(* IncrementalAnalyzer.compute_diff and the orchestrator's use of it: the  *)
(* decision which files an incremental run analyses again, and the         *)
(* fallback to a full analysis.  AnalysisRun leaves the propagated files   *)
(* open; here they are computed.                                           *)
(*                                                                         *)
(* Two sessions are involved.  The orchestrator's own has the rows of this *)
(* run's scan (`current`); the analyzer opens others, which see the        *)
(* committed rows of the previous one (`stored`), the snapshot that joins  *)
(* with them, and the call edges and module dependencies among them.       *)
(*                                                                         *)
(* A file has two names.  `files.path` is relative to the repository; the  *)
(* AST nodes of the file carry the path the parser was given, which is the *)
(* absolute one.  Dependencies are found by file id and come back as       *)
(* relative paths, call edges come back as the paths of their nodes.       *)
(***************************************************************************)
EXTENDS Integers, FiniteSets

CONSTANTS
  File,         \* relative paths
  AbsolutePath, \* the paths AST nodes carry
  NodePath,     \* the one the nodes of a file carry
  Hash,         \* content hashes
  Missing,      \* "no such file"
  CallPairs,    \* pairs <<caller, callee>> that may be stored
  ImportPairs,  \* pairs <<importer, imported>> that may be stored
  MaxEdited,    \* bound: files in which the scan differs from the stored rows
  MaxDepth,     \* incremental_max_propagation_depth
  FallbackNum, FallbackDen   \* incremental_max_change_ratio = Num / Den

ASSUME ConstantsAssumption ==
  /\ IsFiniteSet(File) /\ IsFiniteSet(AbsolutePath) /\ File \cap AbsolutePath = {}
  /\ NodePath \in [File -> AbsolutePath] /\ Missing \notin Hash
  /\ CallPairs \subseteq File \X File /\ ImportPairs \subseteq File \X File
  /\ MaxEdited \in Nat /\ MaxDepth \in Nat
  /\ FallbackNum \in Nat /\ FallbackDen \in Nat \ {0} /\ FallbackNum < FallbackDen

VARIABLES
  stored,      \* committed rows of `files`: path -> content_hash
  current,     \* rows of `files` in the run's session
  versioned,   \* some snapshot exists (latest_version is not None)
  previous,    \* what _load_snapshot returns
  calls, imports,   \* the stored edges, both ends in stored files
  pc,
  queue,       \* the BFS queue: pairs <<path, depth>>
  visited, propagated,
  diff,        \* the IncrementalDiff's counts and verdict
  toParse      \* the orchestrator's files_to_parse

inputs == <<stored, current, versioned, previous, calls, imports>>
vars == <<inputs, pc, queue, visited, propagated, diff, toParse>>

Path  == File \cup AbsolutePath
Tree  == [File -> Hash \cup {Missing}]
Empty == [f \in File |-> Missing]
Present(tree) == {f \in File : tree[f] # Missing}

\* _compute_changes
Added    == Present(current) \ Present(previous)
Modified == {f \in Present(current) \cap Present(previous) : current[f] # previous[f]}
Deleted  == Present(previous) \ Present(current)
Changed  == Added \cup Modified \cup Deleted

\* A deleted file is a change but spreads to nobody.
Roots == Added \cup Modified

\* Importers and imported files, by id: relative paths.
ImportNeighbours(f) == {g \in File : {<<f, g>>, <<g, f>>} \cap imports # {}}

\* Callers and callees, by the file_path of their nodes: absolute paths.
CallNeighbours(f) ==
  {NodePath[g] : g \in {h \in File : {<<f, h>>, <<h, f>>} \cap calls # {}}}

\* Mutant of Neighbours: only what the file itself imports.
NeighboursImportedOnly(path) ==
  IF path \in Present(stored)
  THEN {g \in File : <<path, g>> \in imports} \cup CallNeighbours(path)
  ELSE {}

\* A path without a row in the analyzer's session leads nowhere; an absolute
\* path never has one.
Neighbours(path) ==
  IF path \in Present(stored) THEN ImportNeighbours(path) \cup CallNeighbours(path) ELSE {}

Affected == Changed \cup propagated

\* affected / max(total, 1) > fallback_threshold
TooMany ==
  Cardinality(Affected) * FallbackDen
    > FallbackNum * (IF Present(current) = {} THEN 1 ELSE Cardinality(Present(current)))

Verdict(total, skipped, full) == [total |-> total, skipped |-> skipped, full |-> full]
NoVerdict == Verdict(0, 0, FALSE)

----------------------------------------------------------------------------
\* A scan has replaced the rows of `files`; the newest snapshot was taken of
\* the committed rows, or of rows that a later scan has deleted, and then none
\* of it joins.
Init ==
  /\ stored \in Tree
  /\ \E edited \in SUBSET File :
       /\ Cardinality(edited) <= MaxEdited
       /\ current \in {tree \in Tree : \A f \in File : tree[f] # stored[f] <=> f \in edited}
  /\ versioned \in BOOLEAN
  /\ previous \in {stored, Empty} /\ (~versioned => previous = Empty)
  /\ calls   \in SUBSET {e \in CallPairs   : {e[1], e[2]} \subseteq Present(stored)}
  /\ imports \in SUBSET {e \in ImportPairs : {e[1], e[2]} \subseteq Present(stored)}
  /\ pc = "load" /\ queue = {} /\ visited = {} /\ propagated = {}
  /\ diff = NoVerdict /\ toParse = {}

\* No snapshot at all: a full analysis of every file.
NoHistory ==
  /\ pc = "load" /\ ~versioned
  /\ diff' = Verdict(Cardinality(Present(current)), 0, TRUE)
  /\ pc' = "done"
  /\ UNCHANGED <<inputs, queue, visited, propagated, toParse>>

LoadSnapshot ==
  /\ pc = "load" /\ versioned
  /\ queue' = Roots \X {0} /\ visited' = Roots
  /\ pc' = "propagate"
  /\ UNCHANGED <<inputs, propagated, diff, toParse>>

\* Mutant of IsHead: queue.pop(), a depth-first search.
IsTail(entry) == entry \in queue /\ \A other \in queue : entry[2] >= other[2]

\* queue.popleft().  Paths are appended in order of depth, so the head is some
\* pair of least depth; which of those comes first depends on the order of a
\* set and is left open.
IsHead(entry) == entry \in queue /\ \A other \in queue : entry[2] <= other[2]

Visit(path, depth) ==
  LET new == IF depth >= MaxDepth THEN {} ELSE Neighbours(path) \ visited
  IN  /\ pc = "propagate" /\ IsHead(<<path, depth>>)
      /\ queue' = (queue \ {<<path, depth>>}) \cup (new \X {depth + 1})
      /\ visited' = visited \cup new /\ propagated' = propagated \cup new
      /\ UNCHANGED <<inputs, pc, diff, toParse>>

\* The verdict, and the orchestrator's selection of files by path.
Judge ==
  /\ pc = "propagate" /\ queue = {}
  /\ diff' = Verdict(Cardinality(Affected),
                     Cardinality(Present(current)) - Cardinality(Affected), TooMany)
  /\ toParse' = IF TooMany THEN {} ELSE Affected \cap Present(current)
  /\ pc' = "done"
  /\ UNCHANGED <<inputs, queue, visited, propagated>>

\* Any exception on the way (the database, in any of the queries) falls back.
DiffFails ==
  /\ pc # "done" /\ pc' = "done"
  /\ diff' = Verdict(0, 0, TRUE) /\ queue' = {} /\ visited' = {} /\ propagated' = {}
  /\ UNCHANGED <<inputs, toParse>>

Next ==
  \/ NoHistory \/ LoadSnapshot \/ Judge \/ DiffFails
  \/ \E path \in Path, depth \in 0..MaxDepth : Visit(path, depth)

Spec == Init /\ [][Next]_vars

----------------------------------------------------------------------------
\* Type invariant: no path is queued deeper than MaxDepth, and only files of
\* the tree are parsed.
TypeOK ==
  /\ stored \in Tree /\ current \in Tree /\ previous \in Tree
  /\ versioned \in BOOLEAN
  /\ calls \subseteq CallPairs /\ imports \subseteq ImportPairs
  /\ pc \in {"load", "propagate", "done"}
  /\ queue \subseteq Path \X (0..MaxDepth)
  /\ visited \subseteq Path /\ propagated \subseteq Path
  /\ diff \in [total : Nat, skipped : Int, full : BOOLEAN]
  /\ toParse \subseteq File

Incremental == pc = "done" /\ ~diff.full

\* The files at most n neighbours away from one of the roots.
Reached(roots, neighbours) ==
  LET within[n \in 0..MaxDepth] ==
        IF n = 0 THEN roots
        ELSE within[n - 1] \cup UNION {neighbours[f] : f \in within[n - 1]}
  IN  within

Dependencies == [f \in File |-> IF f \in Present(stored) THEN ImportNeighbours(f) ELSE {}]

\* The files at most n dependencies away from an added or modified file.
Within == Reached(Roots, Dependencies)

\* compute_diff as a whole: along dependencies the search finds exactly the
\* files within the maximal depth; in no order of the queue does an early long
\* path hide what a shorter one would have reached.
SearchIsExact ==
  Incremental => /\ propagated \cap File = Within[MaxDepth] \ Roots
                 /\ toParse = (Within[MaxDepth] \cup Changed) \cap Present(current)

\* get_files_to_analyze: a file an incremental run leaves out has not changed
\* since the snapshot, and imports or is imported by no stored file that has,
\* except one that was deleted.
SkippedIsUntouched ==
  Incremental =>
    \A f \in Present(current) \ toParse :
      /\ previous[f] = current[f]
      /\ MaxDepth > 0 =>
           \A g \in Roots \cap Present(stored) : f \notin ImportNeighbours(g)

\* The threshold: an incremental run has a base to add to.  A snapshot none of
\* whose rows joins with `files` any more reads as the empty tree, and must
\* not pass for "nothing changed".
IncrementalHasBase ==
  Incremental /\ Present(current) # {} => versioned /\ previous = stored

----------------------------------------------------------------------------
(* What the repository says of the analyzer, and the code does not do. *)

\* Rule 1 of _propagate_dependencies: "a changed file is called by others: the
\* callers have to be analysed again".
CallersAreAnalyzed ==
  Incremental /\ MaxDepth > 0 =>
    \A f \in Modified, g \in Present(current) : <<g, f>> \in calls => g \in toParse

\* IncrementalDiff.total_files_to_analyze: "the number of files
\* finally to be analysed".
CountsMatch == Incremental => diff.total = Cardinality(toParse)
=============================================================================
